---- MODULE Spec2Model ----
(***************************************************************************)
(* A model of the cfb-data client library: route discovery, the dispatcher *)
(* CFBDAPIBase.make_request, the route handlers with their pydantic        *)
(* request models, the transport _make_request, and the response           *)
(* validation of CFBDValidationAPI.make_request.                           *)
(***************************************************************************)
EXTENDS Integers, Sequences, FiniteSets, TLC

VARIABLES
    client,     \* the constructed client: its class (layer and handler methods)
    route_map,  \* self._route_map: path -> name of the bound handler method
    calls       \* one record per logical call (coroutine) on the client

vars == <<client, route_map, calls>>

(***************************************************************************)
(* Python / JSON values.  Every value carries its type tag, so that None,  *)
(* 0 and "" are three different values.                                    *)
(***************************************************************************)
NullV == [t |-> "null"]
IntV(n) == [t |-> "int", n |-> n]
StrV(s) == [t |-> "str", s |-> s]
BoolV(b) == [t |-> "bool", b |-> b]
\* a float, held in hundredths: FloatV(50) is 0.5
FloatV(c) == [t |-> "float", c |-> c]
\* a member of a str-valued Enum class
EnumV(cls, s) == [t |-> "enum", cls |-> cls, s |-> s]
\* a datetime object, held as its ISO text
DatetimeV(s) == [t |-> "datetime", s |-> s]
DictV(d) == [t |-> "dict", d |-> d]
ListV(xs) == [t |-> "list", xs |-> xs]

IsNull(v) == v.t = "null"

\* the empty mapping {}
EmptyMap == [k \in {} |-> NullV]

\* str(v) for the values that reach the query string
PyStr(v) ==
    CASE v.t = "str" -> v.s
      [] v.t = "enum" -> v.s
      [] v.t = "int" -> ToString(v.n)
      [] OTHER -> "None"

\* Python's a == b for the scalar values of the model: a member of a
\* str-Enum compares equal to its literal string
PyEq(a, b) ==
    CASE a.t = "enum" /\ b.t = "str" -> a.s = b.s
      [] a.t = "str" /\ b.t = "enum" -> a.s = b.s
      [] OTHER -> a = b

\* truthiness of `params` in `params or {}`
Truthy(v) ==
    CASE v.t = "null" -> FALSE
      [] v.t = "dict" -> DOMAIN v.d # {}
      [] v.t = "list" -> Len(v.xs) > 0
      [] v.t = "int" -> v.n # 0
      [] v.t = "str" -> v.s # ""
      [] v.t = "bool" -> v.b
      [] OTHER -> TRUE

(***************************************************************************)
(* Enumerations of the request models.                                     *)
(***************************************************************************)
\* a faulty vocabulary: the members added for all-star and spring games are
\* missing
SeasonTypeLegacy == {"regular", "postseason", "both"}

SeasonType == {"regular", "postseason", "both", "allstar",
               "spring_regular", "spring_postseason"}

Classification == {"fbs", "fcs", "ii", "iii"}

EnumMembers(cls) ==
    CASE cls = "SeasonType" -> SeasonType
      [] cls = "Classification" -> Classification
      [] OTHER -> {}

(***************************************************************************)
(* Request models.  A field is its python name, its alias (the name itself *)
(* when none is declared), its type, whether it is required (no default)   *)
(* and its numeric constraints.                                            *)
(***************************************************************************)
\* a field of any model: nullable is Optional[...], required is "no default"
RFld(name, alias, type, nullable, required, default, cons) ==
    [name |-> name, alias |-> alias, type |-> type, nullable |-> nullable,
     required |-> required, default |-> default, cons |-> cons]

\* the request models declare a field either `T = Field(...)` (required, not
\* nullable) or `Optional[T] = Field(default=None, ...)`
Fld(name, alias, type, required, cons) ==
    RFld(name, alias, type, ~required, required, NullV, cons)

Ge(n) == [op |-> "ge", n |-> n]
\* a faulty gt: the bound itself is let through
GtInclusive(n) == [op |-> "ge", n |-> n]
Gt(n) == [op |-> "gt", n |-> n]
Le(n) == [op |-> "le", n |-> n]
\* a @validator that raises ValueError on a negative value
NonNegativeValidator == [op |-> "validator", n |-> 0]

GamesRequest == <<
    Fld("year", "year", "int", FALSE, {Ge(1869), Le(2030)}),
    Fld("week", "week", "int", FALSE, {Ge(0), Le(20)}),
    Fld("season_type", "seasonType", "SeasonType", FALSE, {}),
    Fld("team", "team", "str", FALSE, {}),
    Fld("home", "home", "str", FALSE, {}),
    Fld("away", "away", "str", FALSE, {}),
    Fld("conference", "conference", "str", FALSE, {}),
    Fld("classification", "classification", "Classification", FALSE, {}),
    Fld("id", "id", "int", FALSE, {Ge(0)}) >>

CalendarRequest == <<
    Fld("year", "year", "int", TRUE, {Ge(1869), Le(2030)}) >>

RecordsRequest == <<
    Fld("year", "year", "int", FALSE, {Ge(1869), Le(2030)}),
    Fld("team", "team", "str", FALSE, {}),
    Fld("conference", "conference", "str", FALSE, {}) >>

GameMediaRequest == <<
    Fld("year", "year", "int", TRUE, {Ge(1869), Le(2030)}),
    Fld("week", "week", "int", FALSE, {Ge(0), Le(20)}),
    Fld("season_type", "seasonType", "SeasonType", FALSE, {}),
    Fld("team", "team", "str", FALSE, {}),
    Fld("conference", "conference", "str", FALSE, {}),
    Fld("media_type", "mediaType", "str", FALSE, {}),
    Fld("classification", "classification", "Classification", FALSE, {}) >>

GameWeatherRequest == <<
    Fld("game_id", "gameId", "int", FALSE, {Ge(0)}),
    Fld("year", "year", "int", FALSE, {Ge(1869), Le(2030)}),
    Fld("week", "week", "int", FALSE, {Ge(0), Le(20)}),
    Fld("season_type", "seasonType", "SeasonType", FALSE, {}),
    Fld("team", "team", "str", FALSE, {}),
    Fld("conference", "conference", "str", FALSE, {}) >>

PlayerGameStatsRequest == <<
    Fld("year", "year", "int", FALSE, {Ge(1869), Le(2030)}),
    Fld("week", "week", "int", FALSE, {Ge(0), Le(20)}),
    Fld("season_type", "seasonType", "SeasonType", FALSE, {}),
    Fld("team", "team", "str", FALSE, {}),
    Fld("conference", "conference", "str", FALSE, {}),
    Fld("category", "category", "str", FALSE, {}),
    Fld("game_id", "gameId", "int", FALSE, {Ge(0)}) >>

TeamGameStatsRequest == <<
    Fld("year", "year", "int", FALSE, {Ge(1869), Le(2030)}),
    Fld("week", "week", "int", FALSE, {Ge(0), Le(20)}),
    Fld("season_type", "seasonType", "SeasonType", FALSE, {}),
    Fld("team", "team", "str", FALSE, {}),
    Fld("conference", "conference", "str", FALSE, {}),
    Fld("game_id", "gameId", "int", FALSE, {Ge(0)}),
    Fld("classification", "classification", "Classification", FALSE, {}) >>

AdvancedBoxScoreRequest == <<
    Fld("game_id", "gameId", "int", TRUE, {Ge(0)}) >>

DrivesRequest == <<
    Fld("year", "year", "int", TRUE, {Ge(1869), Le(2025)}),
    Fld("season_type", "seasonType", "SeasonType", FALSE, {}),
    Fld("week", "week", "int", FALSE, {Gt(0), Le(20)}),
    Fld("team", "team", "str", FALSE, {}),
    Fld("offense", "offense", "str", FALSE, {}),
    Fld("defense", "defense", "str", FALSE, {}),
    Fld("conference", "conference", "str", FALSE, {}),
    Fld("offense_conference", "offenseConference", "str", FALSE, {}),
    Fld("defense_conference", "defenseConference", "str", FALSE, {}),
    Fld("classification", "classification", "Classification", FALSE, {}) >>

RequestModels == {"GamesRequest", "CalendarRequest", "RecordsRequest",
                  "GameMediaRequest", "GameWeatherRequest",
                  "PlayerGameStatsRequest", "TeamGameStatsRequest",
                  "AdvancedBoxScoreRequest", "DrivesRequest"}

RequestFields(model) ==
    CASE model = "GamesRequest" -> GamesRequest
      [] model = "CalendarRequest" -> CalendarRequest
      [] model = "RecordsRequest" -> RecordsRequest
      [] model = "GameMediaRequest" -> GameMediaRequest
      [] model = "GameWeatherRequest" -> GameWeatherRequest
      [] model = "PlayerGameStatsRequest" -> PlayerGameStatsRequest
      [] model = "TeamGameStatsRequest" -> TeamGameStatsRequest
      [] model = "AdvancedBoxScoreRequest" -> AdvancedBoxScoreRequest
      [] model = "DrivesRequest" -> DrivesRequest

(***************************************************************************)
(* Response models.                                                        *)
(***************************************************************************)
Game == <<
    RFld("id", "id", "int", FALSE, TRUE, NullV, {}),
    RFld("season", "season", "int", FALSE, TRUE, NullV, {}),
    RFld("week", "week", "int", FALSE, TRUE, NullV, {}),
    RFld("season_type", "season_type", "str", FALSE, TRUE, NullV, {}),
    RFld("start_date", "start_date", "datetime", FALSE, TRUE, NullV, {}),
    RFld("start_time_tbd", "start_time_tbd", "bool", FALSE, FALSE, BoolV(FALSE), {}),
    RFld("completed", "completed", "bool", FALSE, FALSE, BoolV(FALSE), {}),
    RFld("neutral_site", "neutral_site", "bool", FALSE, FALSE, BoolV(FALSE), {}),
    RFld("conference_game", "conference_game", "bool", TRUE, FALSE, NullV, {}),
    RFld("attendance", "attendance", "int", TRUE, FALSE, NullV, {}),
    RFld("venue_id", "venue_id", "int", TRUE, FALSE, NullV, {}),
    RFld("venue", "venue", "str", TRUE, FALSE, NullV, {}),
    RFld("home_id", "home_id", "int", TRUE, FALSE, NullV, {}),
    RFld("home_team", "home_team", "str", FALSE, TRUE, NullV, {}),
    RFld("home_conference", "home_conference", "str", TRUE, FALSE, NullV, {}),
    RFld("home_division", "home_division", "str", TRUE, FALSE, NullV, {}),
    RFld("home_points", "home_points", "int", TRUE, FALSE, NullV, {NonNegativeValidator}),
    RFld("home_line_scores", "home_line_scores", "list[int?]", TRUE, FALSE, NullV, {}),
    RFld("home_post_win_prob", "home_post_win_prob", "float", TRUE, FALSE, NullV, {Ge(0), Le(1)}),
    RFld("home_pregame_elo", "home_pregame_elo", "int", TRUE, FALSE, NullV, {}),
    RFld("home_postgame_elo", "home_postgame_elo", "int", TRUE, FALSE, NullV, {}),
    RFld("away_id", "away_id", "int", TRUE, FALSE, NullV, {}),
    RFld("away_team", "away_team", "str", FALSE, TRUE, NullV, {}),
    RFld("away_conference", "away_conference", "str", TRUE, FALSE, NullV, {}),
    RFld("away_division", "away_division", "str", TRUE, FALSE, NullV, {}),
    RFld("away_points", "away_points", "int", TRUE, FALSE, NullV, {NonNegativeValidator}),
    RFld("away_line_scores", "away_line_scores", "list[int?]", TRUE, FALSE, NullV, {}),
    RFld("away_post_win_prob", "away_post_win_prob", "float", TRUE, FALSE, NullV, {Ge(0), Le(1)}),
    RFld("away_pregame_elo", "away_pregame_elo", "int", TRUE, FALSE, NullV, {}),
    RFld("away_postgame_elo", "away_postgame_elo", "int", TRUE, FALSE, NullV, {}),
    RFld("excitement_index", "excitement_index", "float", TRUE, FALSE, NullV, {}),
    RFld("highlights", "highlights", "str", TRUE, FALSE, NullV, {}),
    RFld("notes", "notes", "str", TRUE, FALSE, NullV, {}) >>

CalendarWeek == <<
    RFld("season", "season", "int", FALSE, TRUE, NullV, {}),
    RFld("week", "week", "int", FALSE, TRUE, NullV, {}),
    RFld("season_type", "season_type", "str", FALSE, TRUE, NullV, {}),
    RFld("first_game_start", "first_game_start", "datetime", FALSE, TRUE, NullV, {}),
    RFld("last_game_start", "last_game_start", "datetime", FALSE, TRUE, NullV, {}) >>

GameMedia == <<
    RFld("id", "id", "int", FALSE, TRUE, NullV, {}),
    RFld("season", "season", "int", FALSE, TRUE, NullV, {}),
    RFld("week", "week", "int", FALSE, TRUE, NullV, {}),
    RFld("season_type", "season_type", "str", FALSE, TRUE, NullV, {}),
    RFld("start_time", "start_time", "datetime", FALSE, TRUE, NullV, {}),
    RFld("is_start_time_tbd", "is_start_time_tbd", "bool", FALSE, FALSE, BoolV(FALSE), {}),
    RFld("home_team", "home_team", "str", FALSE, TRUE, NullV, {}),
    RFld("home_conference", "home_conference", "str", TRUE, FALSE, NullV, {}),
    RFld("away_team", "away_team", "str", FALSE, TRUE, NullV, {}),
    RFld("away_conference", "away_conference", "str", TRUE, FALSE, NullV, {}),
    RFld("tv", "tv", "str", TRUE, FALSE, NullV, {}),
    RFld("radio", "radio", "str", TRUE, FALSE, NullV, {}),
    RFld("web", "web", "str", TRUE, FALSE, NullV, {}),
    RFld("ppv", "ppv", "str", TRUE, FALSE, NullV, {}),
    RFld("mobile", "mobile", "str", TRUE, FALSE, NullV, {}),
    RFld("outlet", "outlet", "str", TRUE, FALSE, NullV, {}) >>

GameWeather == <<
    RFld("id", "id", "int", FALSE, TRUE, NullV, {}),
    RFld("season", "season", "int", FALSE, TRUE, NullV, {}),
    RFld("week", "week", "int", FALSE, TRUE, NullV, {}),
    RFld("season_type", "season_type", "str", FALSE, TRUE, NullV, {}),
    RFld("start_time", "start_time", "datetime", FALSE, TRUE, NullV, {}),
    RFld("game_indoors", "game_indoors", "bool", TRUE, FALSE, NullV, {}),
    RFld("venue_id", "venue_id", "int", TRUE, FALSE, NullV, {}),
    RFld("venue", "venue", "str", TRUE, FALSE, NullV, {}),
    RFld("temperature", "temperature", "float", TRUE, FALSE, NullV, {}),
    RFld("dew_point", "dew_point", "float", TRUE, FALSE, NullV, {}),
    RFld("humidity", "humidity", "float", TRUE, FALSE, NullV, {Ge(0), Le(100)}),
    RFld("precipitation", "precipitation", "float", TRUE, FALSE, NullV, {Ge(0)}),
    RFld("snowfall", "snowfall", "float", TRUE, FALSE, NullV, {Ge(0)}),
    RFld("wind_direction", "wind_direction", "float", TRUE, FALSE, NullV, {Ge(0), Le(360)}),
    RFld("wind_speed", "wind_speed", "float", TRUE, FALSE, NullV, {Ge(0)}),
    RFld("pressure", "pressure", "float", TRUE, FALSE, NullV, {}),
    RFld("weather_condition_code", "weather_condition_code", "str", TRUE, FALSE, NullV, {}),
    RFld("weather_condition", "weather_condition", "str", TRUE, FALSE, NullV, {}) >>

TeamRecord == <<
    RFld("games", "games", "int", FALSE, TRUE, NullV, {}),
    RFld("wins", "wins", "int", FALSE, TRUE, NullV, {}),
    RFld("losses", "losses", "int", FALSE, TRUE, NullV, {}),
    RFld("ties", "ties", "int", FALSE, FALSE, IntV(0), {}) >>

TeamRecords == <<
    RFld("year", "year", "int", FALSE, TRUE, NullV, {}),
    RFld("team_id", "team_id", "int", TRUE, FALSE, NullV, {}),
    RFld("team", "team", "str", FALSE, TRUE, NullV, {}),
    RFld("conference", "conference", "str", TRUE, FALSE, NullV, {}),
    RFld("division", "division", "str", TRUE, FALSE, NullV, {}),
    RFld("expected_wins", "expected_wins", "float", TRUE, FALSE, NullV, {}),
    RFld("total", "total", "TeamRecord", FALSE, TRUE, NullV, {}),
    RFld("conference_games", "conference_games", "TeamRecord", TRUE, FALSE, NullV, {}),
    RFld("home_games", "home_games", "TeamRecord", TRUE, FALSE, NullV, {}),
    RFld("away_games", "away_games", "TeamRecord", TRUE, FALSE, NullV, {}) >>

PlayerGamePassing == <<
    RFld("player_id", "player_id", "int", FALSE, TRUE, NullV, {}),
    RFld("player", "player", "str", FALSE, TRUE, NullV, {}),
    RFld("completions", "completions", "int", TRUE, FALSE, NullV, {}),
    RFld("attempts", "attempts", "int", TRUE, FALSE, NullV, {}),
    RFld("passing_yards", "passing_yards", "float", TRUE, FALSE, NullV, {}),
    RFld("passing_tds", "passing_tds", "int", TRUE, FALSE, NullV, {}),
    RFld("interceptions", "interceptions", "int", TRUE, FALSE, NullV, {}),
    RFld("yards_per_attempt", "yards_per_attempt", "float", TRUE, FALSE, NullV, {}),
    RFld("completion_percentage", "completion_percentage", "float", TRUE, FALSE, NullV, {Ge(0), Le(100)}) >>

PlayerGameRushing == <<
    RFld("player_id", "player_id", "int", FALSE, TRUE, NullV, {}),
    RFld("player", "player", "str", FALSE, TRUE, NullV, {}),
    RFld("carries", "carries", "int", TRUE, FALSE, NullV, {}),
    RFld("rushing_yards", "rushing_yards", "float", TRUE, FALSE, NullV, {}),
    RFld("rushing_tds", "rushing_tds", "int", TRUE, FALSE, NullV, {}),
    RFld("yards_per_carry", "yards_per_carry", "float", TRUE, FALSE, NullV, {}),
    RFld("long_rushing", "long_rushing", "int", TRUE, FALSE, NullV, {}) >>

PlayerGameReceiving == <<
    RFld("player_id", "player_id", "int", FALSE, TRUE, NullV, {}),
    RFld("player", "player", "str", FALSE, TRUE, NullV, {}),
    RFld("receptions", "receptions", "int", TRUE, FALSE, NullV, {}),
    RFld("receiving_yards", "receiving_yards", "float", TRUE, FALSE, NullV, {}),
    RFld("receiving_tds", "receiving_tds", "int", TRUE, FALSE, NullV, {}),
    RFld("yards_per_reception", "yards_per_reception", "float", TRUE, FALSE, NullV, {}),
    RFld("long_reception", "long_reception", "int", TRUE, FALSE, NullV, {}) >>

PlayerGameDefensive == <<
    RFld("player_id", "player_id", "int", FALSE, TRUE, NullV, {}),
    RFld("player", "player", "str", FALSE, TRUE, NullV, {}),
    RFld("tackles", "tackles", "float", TRUE, FALSE, NullV, {}),
    RFld("tackles_for_loss", "tackles_for_loss", "float", TRUE, FALSE, NullV, {}),
    RFld("sacks", "sacks", "float", TRUE, FALSE, NullV, {}),
    RFld("interceptions", "interceptions", "int", TRUE, FALSE, NullV, {}),
    RFld("passes_defended", "passes_defended", "int", TRUE, FALSE, NullV, {}),
    RFld("fumbles_forced", "fumbles_forced", "int", TRUE, FALSE, NullV, {}),
    RFld("fumbles_recovered", "fumbles_recovered", "int", TRUE, FALSE, NullV, {}),
    RFld("defensive_tds", "defensive_tds", "int", TRUE, FALSE, NullV, {}) >>

PlayerGameStats == <<
    RFld("game_id", "game_id", "int", FALSE, TRUE, NullV, {}),
    RFld("team", "team", "str", FALSE, TRUE, NullV, {}),
    RFld("conference", "conference", "str", TRUE, FALSE, NullV, {}),
    RFld("category", "category", "str", FALSE, TRUE, NullV, {}),
    RFld("passing", "passing", "list[PlayerGamePassing]", TRUE, FALSE, NullV, {}),
    RFld("rushing", "rushing", "list[PlayerGameRushing]", TRUE, FALSE, NullV, {}),
    RFld("receiving", "receiving", "list[PlayerGameReceiving]", TRUE, FALSE, NullV, {}),
    RFld("defensive", "defensive", "list[PlayerGameDefensive]", TRUE, FALSE, NullV, {}) >>

TeamGameStats == <<
    RFld("game_id", "game_id", "int", FALSE, TRUE, NullV, {}),
    RFld("school", "school", "str", FALSE, TRUE, NullV, {}),
    RFld("conference", "conference", "str", TRUE, FALSE, NullV, {}),
    RFld("home_away", "home_away", "str", FALSE, TRUE, NullV, {}),
    RFld("opponent", "opponent", "str", FALSE, TRUE, NullV, {}),
    RFld("points", "points", "int", FALSE, TRUE, NullV, {}),
    RFld("total_yards", "total_yards", "float", TRUE, FALSE, NullV, {}),
    RFld("net_passing_yards", "net_passing_yards", "float", TRUE, FALSE, NullV, {}),
    RFld("completion_attempts", "completion_attempts", "str", TRUE, FALSE, NullV, {}),
    RFld("passing_tds", "passing_tds", "int", TRUE, FALSE, NullV, {}),
    RFld("rushing_yards", "rushing_yards", "float", TRUE, FALSE, NullV, {}),
    RFld("rushing_attempts", "rushing_attempts", "int", TRUE, FALSE, NullV, {}),
    RFld("rushing_tds", "rushing_tds", "int", TRUE, FALSE, NullV, {}),
    RFld("first_downs", "first_downs", "int", TRUE, FALSE, NullV, {}),
    RFld("third_down_efficiency", "third_down_efficiency", "str", TRUE, FALSE, NullV, {}),
    RFld("fourth_down_efficiency", "fourth_down_efficiency", "str", TRUE, FALSE, NullV, {}),
    RFld("total_penalties", "total_penalties", "int", TRUE, FALSE, NullV, {}),
    RFld("penalty_yards", "penalty_yards", "int", TRUE, FALSE, NullV, {}),
    RFld("turnovers", "turnovers", "int", TRUE, FALSE, NullV, {}),
    RFld("fumbles_lost", "fumbles_lost", "int", TRUE, FALSE, NullV, {}),
    RFld("interceptions_thrown", "interceptions_thrown", "int", TRUE, FALSE, NullV, {}),
    RFld("possession_time", "possession_time", "str", TRUE, FALSE, NullV, {}) >>

BoxScoreTeamStats == <<
    RFld("team", "team", "str", FALSE, TRUE, NullV, {}),
    RFld("points", "points", "int", FALSE, TRUE, NullV, {}),
    RFld("drives", "drives", "int", TRUE, FALSE, NullV, {}),
    RFld("scoring_opportunities", "scoring_opportunities", "int", TRUE, FALSE, NullV, {}),
    RFld("points_per_opportunity", "points_per_opportunity", "float", TRUE, FALSE, NullV, {}),
    RFld("explosiveness", "explosiveness", "float", TRUE, FALSE, NullV, {}),
    RFld("play_count", "play_count", "int", TRUE, FALSE, NullV, {}),
    RFld("stuff_rate", "stuff_rate", "float", TRUE, FALSE, NullV, {}),
    RFld("line_yards", "line_yards", "float", TRUE, FALSE, NullV, {}),
    RFld("second_level_yards", "second_level_yards", "float", TRUE, FALSE, NullV, {}),
    RFld("open_field_yards", "open_field_yards", "float", TRUE, FALSE, NullV, {}),
    RFld("success_rate", "success_rate", "float", TRUE, FALSE, NullV, {}),
    RFld("field_position", "field_position", "float", TRUE, FALSE, NullV, {}),
    RFld("havoc", "havoc", "float", TRUE, FALSE, NullV, {}) >>

AdvancedBoxScore == <<
    RFld("game_id", "game_id", "int", FALSE, TRUE, NullV, {}),
    RFld("home_team", "home_team", "BoxScoreTeamStats", FALSE, TRUE, NullV, {}),
    RFld("away_team", "away_team", "BoxScoreTeamStats", FALSE, TRUE, NullV, {}),
    RFld("players", "players", "dict", TRUE, FALSE, NullV, {}) >>

DriveTime == <<
    RFld("seconds", "seconds", "int", TRUE, FALSE, NullV, {}),
    RFld("minutes", "minutes", "int", TRUE, FALSE, NullV, {}) >>

Drive == <<
    RFld("offense", "offense", "str", FALSE, TRUE, NullV, {}),
    RFld("offense_conference", "offenseConference", "str", TRUE, FALSE, NullV, {}),
    RFld("defense", "defense", "str", FALSE, TRUE, NullV, {}),
    RFld("defense_conference", "defenseConference", "str", TRUE, FALSE, NullV, {}),
    RFld("game_id", "gameId", "int", FALSE, TRUE, NullV, {}),
    RFld("id", "id", "str", FALSE, TRUE, NullV, {}),
    RFld("drive_number", "driveNumber", "int", TRUE, FALSE, NullV, {}),
    RFld("scoring", "scoring", "bool", FALSE, TRUE, NullV, {}),
    RFld("start_period", "startPeriod", "int", FALSE, TRUE, NullV, {}),
    RFld("start_yardline", "startYardline", "int", FALSE, TRUE, NullV, {}),
    RFld("start_yards_to_goal", "startYardsToGoal", "int", FALSE, TRUE, NullV, {}),
    RFld("start_time", "startTime", "DriveTime", FALSE, TRUE, NullV, {}),
    RFld("end_period", "endPeriod", "int", FALSE, TRUE, NullV, {}),
    RFld("end_yardline", "endYardline", "int", FALSE, TRUE, NullV, {}),
    RFld("end_yards_to_goal", "endYardsToGoal", "int", FALSE, TRUE, NullV, {}),
    RFld("end_time", "endTime", "DriveTime", FALSE, TRUE, NullV, {}),
    RFld("plays", "plays", "int", FALSE, TRUE, NullV, {}),
    RFld("yards", "yards", "int", FALSE, TRUE, NullV, {}),
    RFld("drive_result", "driveResult", "str", FALSE, TRUE, NullV, {}),
    RFld("is_home_offense", "isHomeOffense", "bool", FALSE, TRUE, NullV, {}),
    RFld("start_offense_score", "startOffenseScore", "int", FALSE, TRUE, NullV, {}),
    RFld("start_defense_score", "startDefenseScore", "int", FALSE, TRUE, NullV, {}),
    RFld("end_offense_score", "endOffenseScore", "int", FALSE, TRUE, NullV, {}),
    RFld("end_defense_score", "endDefenseScore", "int", FALSE, TRUE, NullV, {}) >>

ResponseModels == {"Game", "CalendarWeek", "GameMedia", "GameWeather",
                   "TeamRecord", "TeamRecords", "PlayerGamePassing",
                   "PlayerGameRushing", "PlayerGameReceiving",
                   "PlayerGameDefensive", "PlayerGameStats", "TeamGameStats",
                   "BoxScoreTeamStats", "AdvancedBoxScore", "DriveTime",
                   "Drive"}

ModelFields(model) ==
    CASE model \in RequestModels -> RequestFields(model)
      [] model = "Game" -> Game
      [] model = "CalendarWeek" -> CalendarWeek
      [] model = "GameMedia" -> GameMedia
      [] model = "GameWeather" -> GameWeather
      [] model = "TeamRecord" -> TeamRecord
      [] model = "TeamRecords" -> TeamRecords
      [] model = "PlayerGamePassing" -> PlayerGamePassing
      [] model = "PlayerGameRushing" -> PlayerGameRushing
      [] model = "PlayerGameReceiving" -> PlayerGameReceiving
      [] model = "PlayerGameDefensive" -> PlayerGameDefensive
      [] model = "PlayerGameStats" -> PlayerGameStats
      [] model = "TeamGameStats" -> TeamGameStats
      [] model = "BoxScoreTeamStats" -> BoxScoreTeamStats
      [] model = "AdvancedBoxScore" -> AdvancedBoxScore
      [] model = "DriveTime" -> DriveTime
      [] model = "Drive" -> Drive

\* model_config = ConfigDict(populate_by_name=True)
PopulateByName(model) ==
    model \in RequestModels \cup {"DriveTime", "Drive"}

\* the item type of a List[...] annotation, and whether the item is Optional
ListItem(type) ==
    CASE type = "list[int?]" -> [type |-> "int", nullable |-> TRUE]
      [] type = "list[str]" -> [type |-> "str", nullable |-> FALSE]
      [] type = "list[PlayerGamePassing]" ->
            [type |-> "PlayerGamePassing", nullable |-> FALSE]
      [] type = "list[PlayerGameRushing]" ->
            [type |-> "PlayerGameRushing", nullable |-> FALSE]
      [] type = "list[PlayerGameReceiving]" ->
            [type |-> "PlayerGameReceiving", nullable |-> FALSE]
      [] type = "list[PlayerGameDefensive]" ->
            [type |-> "PlayerGameDefensive", nullable |-> FALSE]

IsListType(type) ==
    type \in {"list[int?]", "list[str]", "list[PlayerGamePassing]",
              "list[PlayerGameRushing]", "list[PlayerGameReceiving]",
              "list[PlayerGameDefensive]"}

(***************************************************************************)
(* pydantic validation.  A result is either a value or the list of error   *)
(* entries a ValidationError carries (location, error type, input).        *)
(***************************************************************************)
Ok(v) == [ok |-> TRUE, v |-> v, errs |-> <<>>]
Fail(errs) == [ok |-> FALSE, v |-> NullV, errs |-> errs]
Err(loc, type, input, msg) ==
    [loc |-> loc, type |-> type, input |-> input, msg |-> msg]

\* an instance of a model class
ModelV(cls, f) == [t |-> "model", cls |-> cls, f |-> f]

\* int(s) on the strings of the input universe: the strings that parse
NumericStrings == ("2023" :> 2023) @@ ("1" :> 1) @@ ("0" :> 0)

\* the strings of the input universe that parse as an ISO 8601 datetime
IsoDatetimes == {"2024-08-01T00:00:00Z", "2024-08-02T00:00:00Z",
                 "2023-09-02T16:00:00.000Z"}

\* the strings pydantic reads as a bool
BoolStrings == ("true" :> TRUE) @@ ("false" :> FALSE)

RECURSIVE Flatten(_)
Flatten(ss) ==
    IF Len(ss) = 0 THEN <<>> ELSE Head(ss) \o Flatten(Tail(ss))

Violated(c, n, scale) ==
    CASE c.op = "ge" -> n < c.n * scale
      [] c.op = "gt" -> n <= c.n * scale
      [] c.op = "le" -> n > c.n * scale
      [] c.op = "validator" -> n < c.n * scale

ConsErrorType(c) ==
    CASE c.op = "ge" -> "greater_than_equal"
      [] c.op = "gt" -> "greater_than"
      [] c.op = "le" -> "less_than_equal"
      [] c.op = "validator" -> "value_error"

\* the Field(ge=, gt=, le=) constraints and @validator of a numeric field
CheckConstraints(cons, loc, v) ==
    LET n == IF v.t = "float" THEN v.c ELSE v.n
        scale == IF v.t = "float" THEN 100 ELSE 1
        bad == {c \in cons : Violated(c, n, scale)}
    IN  IF bad = {} THEN Ok(v)
        ELSE LET c == CHOOSE x \in bad : TRUE
             IN  Fail(<<Err(loc, ConsErrorType(c), v, c.op)>>)

\* lax-mode coercion of one non-null input to a scalar type
ValidateScalar(type, cons, loc, v) ==
    CASE type = "int" ->
            (CASE v.t = "int" -> CheckConstraints(cons, loc, v)
               [] v.t = "bool" ->
                    CheckConstraints(cons, loc, IntV(IF v.b THEN 1 ELSE 0))
               [] v.t = "float" ->
                    IF v.c % 100 = 0
                    THEN CheckConstraints(cons, loc, IntV(v.c \div 100))
                    ELSE Fail(<<Err(loc, "int_from_float", v, "")>>)
               [] v.t = "str" ->
                    IF v.s \in DOMAIN NumericStrings
                    THEN CheckConstraints(cons, loc, IntV(NumericStrings[v.s]))
                    ELSE Fail(<<Err(loc, "int_parsing", v, "")>>)
               [] OTHER -> Fail(<<Err(loc, "int_type", v, "")>>))
      [] type = "float" ->
            (CASE v.t = "float" -> CheckConstraints(cons, loc, v)
               [] v.t = "int" -> CheckConstraints(cons, loc, FloatV(v.n * 100))
               [] v.t = "bool" ->
                    CheckConstraints(cons, loc, FloatV(IF v.b THEN 100 ELSE 0))
               [] v.t = "str" ->
                    IF v.s \in DOMAIN NumericStrings
                    THEN CheckConstraints(cons, loc,
                                          FloatV(NumericStrings[v.s] * 100))
                    ELSE Fail(<<Err(loc, "float_parsing", v, "")>>)
               [] OTHER -> Fail(<<Err(loc, "float_type", v, "")>>))
      [] type = "str" ->
            IF v.t = "str" THEN Ok(v)
            ELSE Fail(<<Err(loc, "string_type", v, "")>>)
      [] type = "bool" ->
            (CASE v.t = "bool" -> Ok(v)
               [] v.t = "int" ->
                    IF v.n \in {0, 1} THEN Ok(BoolV(v.n = 1))
                    ELSE Fail(<<Err(loc, "bool_parsing", v, "")>>)
               [] v.t = "str" ->
                    IF v.s \in DOMAIN BoolStrings THEN Ok(BoolV(BoolStrings[v.s]))
                    ELSE Fail(<<Err(loc, "bool_parsing", v, "")>>)
               [] OTHER -> Fail(<<Err(loc, "bool_type", v, "")>>))
      [] type = "datetime" ->
            (CASE v.t = "datetime" -> Ok(v)
               [] v.t = "str" ->
                    IF v.s \in IsoDatetimes THEN Ok(DatetimeV(v.s))
                    ELSE Fail(<<Err(loc, "datetime_from_date_parsing", v, "")>>)
               [] v.t = "int" -> Ok([t |-> "datetime", epoch |-> v.n])
               [] OTHER -> Fail(<<Err(loc, "datetime_type", v, "")>>))
      [] type = "dict" ->
            IF v.t = "dict" THEN Ok(v)
            ELSE Fail(<<Err(loc, "dict_type", v, "")>>)
      [] type \in {"SeasonType", "Classification"} ->
            (CASE v.t = "enum" /\ v.cls = type -> Ok(v)
               [] v.t = "str" /\ v.s \in EnumMembers(type) -> Ok(EnumV(type, v.s))
               [] OTHER -> Fail(<<Err(loc, "enum", v, "")>>))

(***************************************************************************)
(* The shared request validators (request_validators.py).  Each returns    *)
(* the ValueError it raises, or no error.                                  *)
(***************************************************************************)
NoError == [raised |-> FALSE, msg |-> ""]
ValueError(msg) == [raised |-> TRUE, msg |-> msg]

\* a faulty rule: year and the id are both demanded
validate_year_and_id_required(year, id_field, id_field_name) ==
    IF IsNull(year) \/ IsNull(id_field)
    THEN ValueError("year is required when " \o id_field_name
                    \o " is not specified")
    ELSE NoError

validate_year_or_id_required(year, id_field, id_field_name) ==
    IF IsNull(year) /\ IsNull(id_field)
    THEN ValueError("year is required when " \o id_field_name
                    \o " is not specified")
    ELSE NoError

\* ", ".join(field_names)
RECURSIVE JoinNames(_)
JoinNames(names) ==
    IF names = <<>> THEN ""
    ELSE IF Len(names) = 1 THEN names[1]
    ELSE names[1] \o ", " \o JoinNames(Tail(names))

\* values.get(field)
DictGet(values, field) ==
    IF field \in DOMAIN values.d THEN values.d[field] ELSE NullV

validate_at_least_one_of(values, field_names, context_message) ==
    IF ~\E i \in DOMAIN field_names : ~IsNull(DictGet(values, field_names[i]))
    THEN ValueError(context_message \o ": " \o JoinNames(field_names))
    ELSE NoError

\* a faulty rule: zero and the empty string do not count as given
validate_team_game_stats_truthy(year, week, team, conference, game_id) ==
    IF ~IsNull(game_id) THEN NoError
    ELSE IF IsNull(year)
    THEN ValueError("year is required when game_id is not specified")
    ELSE IF ~Truthy(week) /\ ~Truthy(team) /\ ~Truthy(conference)
    THEN ValueError("At least one of week, team, or conference is required when game_id is not specified")
    ELSE NoError

\* a faulty rule: game_id does not lift the other requirements
validate_team_game_stats_no_bypass(year, week, team, conference, game_id) ==
    IF IsNull(year)
    THEN ValueError("year is required when game_id is not specified")
    ELSE IF IsNull(week) /\ IsNull(team) /\ IsNull(conference)
    THEN ValueError("At least one of week, team, or conference is required when game_id is not specified")
    ELSE NoError

\* a faulty rule: the week, team or conference filter is never demanded
validate_team_game_stats_no_filter(year, week, team, conference, game_id) ==
    IF ~IsNull(game_id) THEN NoError
    ELSE IF IsNull(year)
    THEN ValueError("year is required when game_id is not specified")
    ELSE NoError

\* a faulty rule: the filters are looked at before the year
validate_team_game_stats_filter_first(year, week, team, conference, game_id) ==
    IF ~IsNull(game_id) THEN NoError
    ELSE IF IsNull(week) /\ IsNull(team) /\ IsNull(conference)
    THEN ValueError("At least one of week, team, or conference is required when game_id is not specified")
    ELSE IF IsNull(year)
    THEN ValueError("year is required when game_id is not specified")
    ELSE NoError

validate_team_game_stats_logic(year, week, team, conference, game_id) ==
    IF ~IsNull(game_id) THEN NoError
    ELSE IF IsNull(year)
    THEN ValueError("year is required when game_id is not specified")
    ELSE IF IsNull(week) /\ IsNull(team) /\ IsNull(conference)
    THEN ValueError("At least one of week, team, or conference is required when game_id is not specified")
    ELSE NoError

\* GamesRequest.validate_year_or_id
validate_year_or_id(self) ==
    validate_year_or_id_required(self["year"], self["id"], "id")

\* TeamGameStatsRequest.validate_team_stats_requirements
validate_team_stats_requirements(self) ==
    validate_team_game_stats_logic(self["year"], self["week"], self["team"],
                                   self["conference"], self["game_id"])

\* the @model_validator(mode="after") of a model, run on the validated fields
ModelValidator(model, self) ==
    CASE model = "GamesRequest" -> validate_year_or_id(self)
      [] model = "TeamGameStatsRequest" -> validate_team_stats_requirements(self)
      [] OTHER -> NoError

(***************************************************************************)
(* model_validate and model_dump.                                          *)
(***************************************************************************)
\* a faulty lookup: a field is read under its python name only
LookupByName(model, f, data) ==
    IF f.name \in DOMAIN data
    THEN [found |-> TRUE, key |-> f.name, v |-> data[f.name]]
    ELSE [found |-> FALSE, key |-> f.name, v |-> NullV]

\* the input key a field is read from: its alias, else (populate_by_name)
\* its python name
Lookup(model, f, data) ==
    IF f.alias \in DOMAIN data
    THEN [found |-> TRUE, key |-> f.alias, v |-> data[f.alias]]
    ELSE IF PopulateByName(model) /\ f.name \in DOMAIN data
    THEN [found |-> TRUE, key |-> f.name, v |-> data[f.name]]
    ELSE [found |-> FALSE, key |-> f.alias, v |-> NullV]

\* the error type pydantic reports for None given to a non-Optional type
NoneErrorType(type) ==
    CASE type = "str" -> "string_type"
      [] type \in ResponseModels \cup RequestModels -> "model_type"
      [] IsListType(type) -> "list_type"
      [] type \in {"SeasonType", "Classification"} -> "enum"
      [] OTHER -> type \o "_type"

RECURSIVE ValidateValue(_, _, _, _), ValidateItems(_, _, _, _),
          ValidateField(_, _, _, _), ValidateFields(_, _, _, _),
          model_validate_at(_, _, _)

\* a validated list: the items, or every error its items produced
ListResult(r) == IF Len(r.errs) > 0 THEN Fail(r.errs) ELSE Ok(ListV(r.v))

\* one non-null input against a field type
ValidateValue(type, cons, loc, v) ==
    IF type \in ResponseModels \cup RequestModels
    THEN model_validate_at(type, loc, v)
    ELSE IF IsListType(type)
    THEN IF v.t = "list"
         THEN ListResult(ValidateItems(ListItem(type), loc, v.xs, 1))
         ELSE Fail(<<Err(loc, "list_type", v, "")>>)
    ELSE ValidateScalar(type, cons, loc, v)

\* item x of a list, at location loc
ValidateItem(item, loc, x) ==
    IF IsNull(x) /\ item.nullable THEN Ok(NullV)
    ELSE IF IsNull(x)
    THEN Fail(<<Err(loc, NoneErrorType(item.type), x, "")>>)
    ELSE ValidateValue(item.type, {}, loc, x)

ConsItem(r, rest) == [v |-> <<r.v>> \o rest.v, errs |-> r.errs \o rest.errs]

\* the items of a list from index i on: the validated items, and every error
ValidateItems(item, loc, xs, i) ==
    IF i > Len(xs) THEN [v |-> <<>>, errs |-> <<>>]
    ELSE ConsItem(ValidateItem(item, Append(loc, ToString(i - 1)), xs[i]),
                  ValidateItems(item, loc, xs, i + 1))

\* field f of a model, given what Lookup found in the input mapping
ValidateFound(f, loc, data, l) ==
    IF ~l.found
    THEN IF f.required
         THEN Fail(<<Err(Append(loc, f.alias), "missing", DictV(data), "")>>)
         ELSE Ok(f.default)
    ELSE IF IsNull(l.v)
    THEN IF f.nullable THEN Ok(NullV)
         ELSE Fail(<<Err(Append(loc, l.key), NoneErrorType(f.type), l.v, "")>>)
    ELSE ValidateValue(f.type, f.cons, Append(loc, l.key), l.v)

\* one field of a model read from the input mapping
ValidateField(model, f, loc, data) ==
    ValidateFound(f, loc, data, Lookup(model, f, data))

\* every error of the per-field results r, in field order
FieldErrors(r) == Flatten([i \in DOMAIN r |-> r[i].errs])

\* the validated fields by python name
FieldValues(fs, r) ==
    [n \in {fs[i].name : i \in DOMAIN fs} |->
        r[CHOOSE i \in DOMAIN fs : fs[i].name = n].v]

\* the instance, unless the "after" validator raised e
AfterValidator(model, loc, v, self, e) ==
    IF e.raised THEN Fail(<<Err(loc, "value_error", v, e.msg)>>)
    ELSE Ok(ModelV(model, self))

\* all field errors are collected; the "after" validator runs only when no
\* field failed
Construct(model, loc, v, fs, r) ==
    IF Len(FieldErrors(r)) > 0 THEN Fail(FieldErrors(r))
    ELSE AfterValidator(model, loc, v, FieldValues(fs, r),
                        ModelValidator(model, FieldValues(fs, r)))

\* every field fs[i] of the model is validated against the input mapping
ValidateFields(model, loc, v, fs) ==
    Construct(model, loc, v, fs,
              [i \in DOMAIN fs |-> ValidateField(model, fs[i], loc, v.d)])

\* Model.model_validate(v) at location loc of the outermost input
model_validate_at(model, loc, v) ==
    IF v.t = "model" /\ v.cls = model THEN Ok(v)
    ELSE IF v.t # "dict" THEN Fail(<<Err(loc, "model_type", v, "")>>)
    ELSE ValidateFields(model, loc, v, ModelFields(model))

model_validate(model, v) == model_validate_at(model, <<>>, v)

DumpKey(f, by_alias) == IF by_alias THEN f.alias ELSE f.name

\* the fields a dump keeps
DumpKept(inst, fs, exclude_none) ==
    {i \in DOMAIN fs : ~(exclude_none /\ IsNull(inst.f[fs[i].name]))}

DumpFields(inst, fs, kept, by_alias) ==
    [k \in {DumpKey(fs[i], by_alias) : i \in kept} |->
        inst.f[fs[CHOOSE i \in kept : DumpKey(fs[i], by_alias) = k].name]]

\* a faulty dump: the fields keep their python names
model_dump_by_name(inst, exclude_none, by_alias) ==
    DumpFields(inst, RequestFields(inst.cls),
               DumpKept(inst, RequestFields(inst.cls), exclude_none), FALSE)

\* self.model_dump(exclude_none=, by_alias=) of a request model instance
model_dump(inst, exclude_none, by_alias) ==
    DumpFields(inst, RequestFields(inst.cls),
               DumpKept(inst, RequestFields(inst.cls), exclude_none), by_alias)

(***************************************************************************)
(* Client classes.  A class is its validation layer and the members that   *)
(* dir(self) lists, the routes in dir()'s (sorted) order.  A member decorated with    *)
(* @route carries _api_path, response_model and dataframe_schema ("" is    *)
(* None); `request` names the request model its body validates params      *)
(* with ("" for a body that hands params to _make_request as they are).    *)
(***************************************************************************)
Route(name, path, request, response_model, dataframe_schema) ==
    [name |-> name, callable |-> TRUE, has_api_path |-> TRUE, path |-> path,
     request |-> request, response_model |-> response_model,
     dataframe_schema |-> dataframe_schema]

\* a member without route metadata (a plain method or a data attribute)
Plain(name, callable) ==
    [name |-> name, callable |-> callable, has_api_path |-> FALSE, path |-> "",
     request |-> "", response_model |-> "", dataframe_schema |-> ""]

\* the members every CFBDAPIBase instance has when _discover_routes runs
CFBDAPIBase ==
    << Plain("_discover_routes", TRUE), Plain("_make_request", TRUE),
       Plain("api_key", FALSE), Plain("base_url", FALSE),
       Plain("headers", FALSE), Plain("make_request", TRUE) >>

CFBDGamesAPI == <<
    Route("_get_box_scores", "/game/box/advanced", "AdvancedBoxScoreRequest",
          "AdvancedBoxScore", ""),
    Route("_get_calendar", "/calendar", "CalendarRequest",
          "CalendarWeek", "CalendarWeekSchema"),
    Route("_get_game_media", "/games/media", "GameMediaRequest",
          "GameMedia", "GameMediaSchema"),
    Route("_get_game_weather", "/games/weather", "GameWeatherRequest",
          "GameWeather", "GameWeatherSchema"),
    Route("_get_games", "/games", "GamesRequest", "Game", "GameSchema"),
    Route("_get_player_game_stats", "/games/players", "PlayerGameStatsRequest",
          "PlayerGameStats", "PlayerGameStatsSchema"),
    Route("_get_team_game_stats", "/games/teams", "TeamGameStatsRequest",
          "TeamGameStats", "TeamGameStatsSchema"),
    Route("_get_team_records", "/records", "RecordsRequest",
          "TeamRecords", "TeamRecordsSchema") >>

CFBDDrivesAPI == <<
    Route("_get_drives", "/drives", "DrivesRequest", "Drive", "DriveSchema") >>

\* the client of tests/base/api/test_base_api.py: a route without metadata
DummyAPI == << Route("_dummy", "/dummy", "", "", "") >>

\* the client of tests/base/validation/test_validation_api.py
DummyValidationAPI == << Route("_calendar", "/calendar", "", "CalendarWeek", "") >>

Class(name, layer, members) ==
    [name |-> name, layer |-> layer, members |-> members]

Classes == {
    Class("CFBDGamesAPI", "base", CFBDGamesAPI \o CFBDAPIBase),
    Class("CFBDGamesValidationAPI", "validation", CFBDGamesAPI \o CFBDAPIBase),
    Class("CFBDGamesPandasAPI", "pandas", CFBDGamesAPI \o CFBDAPIBase),
    Class("CFBDDrivesAPI", "base", CFBDDrivesAPI \o CFBDAPIBase),
    Class("CFBDDrivesValidationAPI", "validation", CFBDDrivesAPI \o CFBDAPIBase),
    Class("DummyAPI", "base", DummyAPI \o CFBDAPIBase),
    Class("DummyValidationAPI", "validation", DummyValidationAPI \o CFBDAPIBase),
    \* DummyAPI's route under the validation layer, composed the way
    \* CFBDGamesValidationAPI composes CFBDGamesAPI with CFBDValidationAPI
    Class("DummyAPI+CFBDValidationAPI", "validation", DummyAPI \o CFBDAPIBase),
    \* a subclass that decorates two methods with the same path; dir() lists
    \* _first before _second
    Class("DuplicateRouteAPI", "base",
          << Route("_first", "/dup", "", "", ""),
             Route("_second", "/dup", "", "", "") >> \o CFBDAPIBase) }

ClassNamed(name) == CHOOSE cls \in Classes : cls.name = name

\* the bound method `name` of the client
Member(ms, name) == ms[CHOOSE i \in DOMAIN ms : ms[i].name = name]

MethodNamed(cls, name) == Member(ClassNamed(cls).members, name)

\* CFBDAPIBase._discover_routes: scan dir(self) in order; a later member
\* with the same _api_path replaces the earlier binding
\* a faulty scan: a path keeps the first handler bound to it
RECURSIVE DiscoverFromFirstWins(_, _, _)
DiscoverFromFirstWins(members, i, routes) ==
    IF i > Len(members) THEN routes
    ELSE LET attr == members[i]
         IN  DiscoverFromFirstWins(members, i + 1,
                IF attr.callable /\ attr.has_api_path
                   /\ attr.path \notin DOMAIN routes
                THEN [p \in DOMAIN routes \cup {attr.path} |->
                        IF p = attr.path THEN attr.name ELSE routes[p]]
                ELSE routes)

RECURSIVE DiscoverFrom(_, _, _)
DiscoverFrom(members, i, routes) ==
    IF i > Len(members) THEN routes
    ELSE LET attr == members[i]
         IN  DiscoverFrom(members, i + 1,
                IF attr.callable /\ attr.has_api_path
                THEN [p \in DOMAIN routes \cup {attr.path} |->
                        IF p = attr.path THEN attr.name ELSE routes[p]]
                ELSE routes)

_discover_routes(cls) == DiscoverFrom(cls.members, 1, EmptyMap)

DefaultBaseUrl == "https://apinext.collegefootballdata.com"

\* CFBDAPIBase.__init__, less the route map
__init__(cls, api_key, base_url) ==
    [cls |-> cls.name, layer |-> cls.layer, api_key |-> api_key,
     base_url |-> base_url,
     headers |-> [Authorization |-> "Bearer " \o api_key,
                  Accept |-> "application/json"]]

(***************************************************************************)
(* Calls.  Each logical call is a coroutine; pc is the frame it stands in: *)
(*   idle            not started                                           *)
(*   make_request    in CFBDAPIBase.make_request, before the dispatch      *)
(*   handler         in the route handler, before validating params        *)
(*   _make_request   in the transport, before the GET is issued            *)
(*   awaiting        suspended on the HTTP response                        *)
(*   validate        in CFBDValidationAPI.make_request, after super()      *)
(*   make_request_pandas  in CFBDPanderaAPI.make_request_pandas            *)
(*   returned/raised finished                                              *)
(* log is the history of what the call did, in order.                      *)
(***************************************************************************)
NumCalls == 2
CallIds == 1 .. NumCalls

\* a caller repeats a finished call at most this many times in all
MaxAttempts == 2

NoOutcome == [kind |-> "none"]
Return(v) == [kind |-> "return", v |-> v]
Raise(type, errs, msg) ==
    [kind |-> "raise", type |-> type, errs |-> errs, msg |-> msg]

IdleCall ==
    [pc |-> "idle", op |-> "", path |-> "", params |-> NullV, attempt |-> 0,
     handler |-> "", args |-> NullV, endpoint |-> "", sent |-> NullV,
     data |-> NullV, outcome |-> NoOutcome, log |-> <<>>]

Events(call, ev) == SelectSeq(call.log, LAMBDA e : e.ev = ev)

\* the number of HTTP GETs the call has issued
Gets(call) == Len(Events(call, "get"))

Finished(call) == call.pc \in {"returned", "raised"}

\* A caller starts operation op: "make_request" is client.make_request(path,
\* params); "handler" calls the route handler bound to path directly;
\* "make_request_pandas" is client.make_request_pandas(path, model, schema,
\* params) of the pandas layer.
Start(c, op, path, params, attempt) ==
    calls' = [calls EXCEPT ![c] =
        [IdleCall EXCEPT
            !.pc = op,
            !.op = op, !.path = path, !.params = params,
            !.attempt = attempt,
            !.handler = IF op = "handler" THEN route_map[path] ELSE "",
            !.args = IF op = "handler" THEN params ELSE NullV,
            !.log = IF op = "handler"
                    THEN <<[ev |-> "handler", name |-> route_map[path],
                            params |-> params, by |-> "caller"]>>
                    ELSE <<>>]]

\* the caller's side of a call, with its inputs drawn from the given sets
CallFrom(c, paths, paramsets) ==
    /\ \A d \in CallIds : calls[d].pc = "idle" /\ c <= d
    /\ \E op \in {"make_request", "handler", "make_request_pandas"},
          path \in paths, params \in paramsets :
          /\ op = "handler" => path \in DOMAIN route_map
          /\ op = "make_request_pandas" => client.layer = "pandas"
          /\ Start(c, op, path, params, 1)
    /\ UNCHANGED <<client, route_map>>

\* a faulty dispatcher: it calls the transport itself for every path
CFBDAPIBase_make_request_direct(c) ==
    /\ calls[c].pc = "make_request"
    /\ calls' = [calls EXCEPT ![c] =
            [calls[c] EXCEPT
                !.pc = "_make_request",
                !.endpoint = calls[c].path,
                !.sent = calls[c].params,
                !.log = calls[c].log \o
                    <<[ev |-> "make_request", path |-> calls[c].path,
                       params |-> calls[c].params],
                      [ev |-> "transport", endpoint |-> calls[c].path,
                       params |-> calls[c].params, by |-> "make_request"]>>]]
    /\ UNCHANGED <<client, route_map>>

\* CFBDAPIBase.make_request: dispatch on the route map
CFBDAPIBase_make_request(c) ==
    LET call == calls[c]
        entered == [ev |-> "make_request", path |-> call.path,
                    params |-> call.params]
    IN  /\ call.pc = "make_request"
        /\ IF call.path \in DOMAIN route_map
           THEN LET args == IF Truthy(call.params) THEN call.params
                            ELSE DictV(EmptyMap)
                IN  calls' = [calls EXCEPT ![c] =
                        [call EXCEPT
                            !.pc = "handler",
                            !.handler = route_map[call.path],
                            !.args = args,
                            !.log = call.log \o
                                <<entered,
                                  [ev |-> "handler",
                                   name |-> route_map[call.path],
                                   params |-> args, by |-> "make_request"]>>]]
           ELSE calls' = [calls EXCEPT ![c] =
                    [call EXCEPT
                        !.pc = "_make_request",
                        !.endpoint = call.path,
                        !.sent = call.params,
                        !.log = call.log \o
                            <<entered,
                              [ev |-> "transport", endpoint |-> call.path,
                               params |-> call.params,
                               by |-> "make_request"]>>]]
        /\ UNCHANGED <<client, route_map>>

\* `return await self._make_request(endpoint, params)` in a handler
HandlerTransport(call, m, params, log) ==
    [call EXCEPT
        !.pc = "_make_request",
        !.endpoint = m.path,
        !.sent = params,
        !.log = call.log \o log \o
            <<[ev |-> "transport", endpoint |-> m.path, params |-> params,
               by |-> "handler"]>>]

\* a faulty handler body: params are validated and then sent as given
HandlerForwarding(call, m, request) ==
    IF ~request.ok
    THEN [call EXCEPT
            !.pc = "raised",
            !.outcome = Raise("ValidationError", request.errs, m.request),
            !.log = call.log \o
                <<[ev |-> "request_validation", model |-> m.request,
                   ok |-> FALSE]>>]
    ELSE HandlerTransport(call, m, call.args,
            <<[ev |-> "request_validation", model |-> m.request,
               ok |-> TRUE]>>)

\* a faulty handler body: params go to _make_request whatever validation said
HandlerUnguarded(call, m, request) ==
    HandlerTransport(call, m, call.args,
        <<[ev |-> "request_validation", model |-> m.request,
           ok |-> request.ok]>>)

\* a faulty handler body: a validation error is caught and an empty list
\* returned in its place
HandlerSwallowing(call, m, request) ==
    IF ~request.ok
    THEN [call EXCEPT
            !.pc = "returned",
            !.outcome = Return(ListV(<<>>)),
            !.log = call.log \o
                <<[ev |-> "request_validation", model |-> m.request,
                   ok |-> FALSE]>>]
    ELSE HandlerTransport(call, m, DictV(model_dump(request.v, TRUE, TRUE)),
            <<[ev |-> "request_validation", model |-> m.request,
               ok |-> TRUE]>>)

\* the handler's body from the result of Request.model_validate(params) on:
\* a ValidationError leaves the handler; a valid request is dumped by alias
\* without its None values and handed to _make_request
HandlerValidated(call, m, request) ==
    IF ~request.ok
    THEN [call EXCEPT
            !.pc = "raised",
            !.outcome = Raise("ValidationError", request.errs, m.request),
            !.log = call.log \o
                <<[ev |-> "request_validation", model |-> m.request,
                   ok |-> FALSE]>>]
    ELSE HandlerTransport(call, m, DictV(model_dump(request.v, TRUE, TRUE)),
            <<[ev |-> "request_validation", model |-> m.request,
               ok |-> TRUE]>>)

\* the body of route handler m (_get_games, _get_drives, ...).  The handlers
\* of the test clients pass params on as they are.
RouteHandler(call, m) ==
    IF m.request = "" THEN HandlerTransport(call, m, call.args, <<>>)
    ELSE HandlerValidated(call, m, model_validate(m.request, call.args))

\* a faulty handler: running it drops its own binding from the route map
HandlerUnbinding(c) ==
    /\ calls[c].pc = "handler"
    /\ calls' = [calls EXCEPT ![c] =
            RouteHandler(calls[c], MethodNamed(client.cls, calls[c].handler))]
    /\ route_map' = [p \in DOMAIN route_map \ {calls[c].path} |-> route_map[p]]
    /\ UNCHANGED client

\* A route handler runs: validate params with the request model, dump the
\* validated model, and enter _make_request.
Handler(c) ==
    /\ calls[c].pc = "handler"
    /\ calls' = [calls EXCEPT ![c] =
            RouteHandler(calls[c], MethodNamed(client.cls, calls[c].handler))]
    /\ UNCHANGED <<client, route_map>>

\* a faulty transport: a repeated call waits for a response without
\* issuing a request of its own
_make_request_cached(c) ==
    /\ calls[c].pc = "_make_request"
    /\ calls' = [calls EXCEPT ![c] =
            [calls[c] EXCEPT
                !.pc = "awaiting",
                !.log = IF calls[c].attempt > 1 THEN calls[c].log
                        ELSE calls[c].log \o
                            <<[ev |-> "get",
                               url |-> client.base_url \o calls[c].endpoint,
                               headers |-> client.headers,
                               params |-> calls[c].sent]>>]]
    /\ UNCHANGED <<client, route_map>>

\* CFBDAPIBase._make_request up to the await: one session.get(url,
\* headers=self.headers, params=params)
_make_request(c) ==
    LET call == calls[c]
    IN  /\ call.pc = "_make_request"
        /\ calls' = [calls EXCEPT ![c] =
                [call EXCEPT
                    !.pc = "awaiting",
                    !.log = call.log \o
                        <<[ev |-> "get",
                           url |-> client.base_url \o call.endpoint,
                           headers |-> client.headers,
                           params |-> call.sent]>>]]
        /\ UNCHANGED <<client, route_map>>

\* An HTTP response: its status and its body, which decodes to a JSON value
\* or does not decode
HttpResponse(status, decodes, json) ==
    [status |-> status, decodes |-> decodes, json |-> json]

\* a faulty status check: only a 5xx status raises
raise_for_status_server(resp) == resp.status >= 500

\* resp.raise_for_status(): ClientResponseError for a 4xx/5xx status
raise_for_status(resp) == resp.status >= 400

\* CFBDAPIBase._make_request from the response on: raise_for_status(), then
\* resp.json(); the value returns through the handler and through
\* CFBDAPIBase.make_request (both `return await ...`) to the frame that
\* awaits it: the caller, or CFBDValidationAPI.make_request
_make_request_resume(c, resp) ==
    LET call == calls[c]
        got == [ev |-> "response", status |-> resp.status,
                decodes |-> resp.decodes, json |-> resp.json]
    IN  /\ call.pc = "awaiting"
        /\ IF raise_for_status(resp)
           THEN calls' = [calls EXCEPT ![c] =
                    [call EXCEPT
                        !.pc = "raised",
                        !.outcome = Raise("ClientResponseError", <<>>,
                                          ToString(resp.status)),
                        !.log = call.log \o <<got>>]]
           ELSE IF ~resp.decodes
           THEN calls' = [calls EXCEPT ![c] =
                    [call EXCEPT
                        !.pc = "raised",
                        !.outcome = Raise("JSONDecodeError", <<>>, ""),
                        !.log = call.log \o <<got>>]]
           ELSE IF call.op = "make_request" /\ client.layer # "base"
           THEN calls' = [calls EXCEPT ![c] =
                    [call EXCEPT
                        !.pc = "validate",
                        !.data = resp.json,
                        !.log = call.log \o <<got>>]]
           ELSE calls' = [calls EXCEPT ![c] =
                    [call EXCEPT
                        !.pc = "returned",
                        !.data = resp.json,
                        !.outcome = Return(resp.json),
                        !.log = call.log \o <<got>>]]
        /\ UNCHANGED <<client, route_map>>

RECURSIVE ValidateEach(_, _, _)

\* a faulty comprehension: the validated item goes behind the rest
PrependReversed(r, rest) == IF ~rest.ok THEN rest ELSE Ok(rest.v \o <<r.v>>)

\* the validated item r in front of the rest of the comprehension
PrependItem(r, rest) == IF ~rest.ok THEN rest ELSE Ok(<<r.v>> \o rest.v)

\* a faulty comprehension: an item that fails validation is left out
EachFromDropping(model, xs, i, r) ==
    IF ~r.ok THEN ValidateEach(model, xs, i + 1)
    ELSE IF ~ValidateEach(model, xs, i + 1).ok
    THEN ValidateEach(model, xs, i + 1)
    ELSE Ok(<<r.v>> \o ValidateEach(model, xs, i + 1).v)

\* the comprehension from item i on, r being model_validate of item i: it
\* stops at the first item that raises
EachFrom(model, xs, i, r) ==
    IF ~r.ok THEN r ELSE PrependItem(r, ValidateEach(model, xs, i + 1))

\* [model.model_validate(item) for item in data], from item i on
ValidateEach(model, xs, i) ==
    IF i > Len(xs) THEN Ok(<<>>)
    ELSE EachFrom(model, xs, i, model_validate(model, xs[i]))

\* getattr(handler, "response_model", None) if handler else None,
\* for handler = self._route_map.get(path); "" is None
ResponseModelOf(cls, routes, path) ==
    IF path \in DOMAIN routes
    THEN MethodNamed(cls, routes[path]).response_model
    ELSE ""

\* `return [model.model_validate(item) for item in data]`
ValidatedList(model, r) ==
    IF r.ok THEN Return(ListV(r.v)) ELSE Raise("ValidationError", r.errs, model)

\* a faulty validation layer: a single object comes back as a list of one
ValidatedRecordAsList(model, r) ==
    IF r.ok THEN Return(ListV(<<r.v>>))
    ELSE Raise("ValidationError", r.errs, model)

\* `return model.model_validate(data)`
ValidatedRecord(model, r) ==
    IF r.ok THEN Return(r.v) ELSE Raise("ValidationError", r.errs, model)

\* a faulty validation layer: the shape of the data is checked before the
\* route's response model is looked at
ValidateResponseShapeFirst(model, data) ==
    IF data.t \notin {"list", "dict"}
    THEN Raise("TypeError", <<>>, "Response data must be list or dict")
    ELSE IF model = "" THEN Return(data)
    ELSE IF data.t = "list"
    THEN ValidatedList(model, ValidateEach(model, data.xs, 1))
    ELSE ValidatedRecord(model, model_validate(model, data))

\* what CFBDValidationAPI.make_request makes of the data super() returned
ValidateResponse(model, data) ==
    IF model = "" THEN Return(data)
    ELSE IF data.t = "list"
    THEN ValidatedList(model, ValidateEach(model, data.xs, 1))
    ELSE IF data.t = "dict"
    THEN ValidatedRecord(model, model_validate(model, data))
    ELSE Raise("TypeError", <<>>, "Response data must be list or dict")

\* a faulty validation layer: the response is validated a second time when
\* the first validation failed
ValidatedAgain(call, model, out) ==
    [call EXCEPT
        !.pc = IF out.kind = "return" THEN "returned" ELSE "raised",
        !.outcome = out,
        !.log = call.log \o
            (IF out.kind = "return"
             THEN <<[ev |-> "response_validation", model |-> model,
                     ok |-> TRUE]>>
             ELSE <<[ev |-> "response_validation", model |-> model,
                     ok |-> FALSE],
                    [ev |-> "response_validation", model |-> model,
                     ok |-> FALSE]>>)]

\* the call leaves CFBDValidationAPI.make_request with outcome out
Validated(call, model, out) ==
    [call EXCEPT
        !.pc = IF out.kind = "return" THEN "returned" ELSE "raised",
        !.outcome = out,
        !.log = call.log \o
            <<[ev |-> "response_validation", model |-> model,
               ok |-> out.kind = "return"]>>]

\* the body of CFBDValidationAPI.make_request for the route's response model
ValidationLayer(call, model) ==
    Validated(call, model, ValidateResponse(model, call.data))

\* a faulty validation layer: the path is kept on the client by the call
\* started last, and the response model is looked up by that path
CFBDValidationAPI_make_request_shared(c) ==
    /\ calls[c].pc = "validate"
    /\ calls' = [calls EXCEPT ![c] =
            ValidationLayer(calls[c],
                ResponseModelOf(client.cls, route_map,
                    calls[CHOOSE d \in CallIds :
                            /\ calls[d].pc # "idle"
                            /\ \A e \in CallIds :
                                  calls[e].pc # "idle" => e <= d].path))]
    /\ UNCHANGED <<client, route_map>>

\* CFBDValidationAPI.make_request after `data = await super().make_request(...)`
CFBDValidationAPI_make_request(c) ==
    /\ calls[c].pc = "validate"
    /\ calls' = [calls EXCEPT ![c] =
            ValidationLayer(calls[c],
                ResponseModelOf(client.cls, route_map, calls[c].path))]
    /\ UNCHANGED <<client, route_map>>

\* CFBDPanderaAPI.make_request_pandas: its first statement awaits
\* self.make_request_validated(path, model, params), an attribute no class
\* of the package defines, so the lookup raises AttributeError before any
\* request is made
CFBDPanderaAPI_make_request_pandas(c) ==
    /\ calls[c].pc = "make_request_pandas"
    /\ calls' = [calls EXCEPT ![c] =
            [calls[c] EXCEPT
                !.pc = "raised",
                !.outcome = Raise("AttributeError", <<>>,
                                  "make_request_validated"),
                !.log = calls[c].log \o <<[ev |-> "make_request_pandas",
                                           path |-> calls[c].path,
                                           params |-> calls[c].params]>>]]
    /\ UNCHANGED <<client, route_map>>

\* the caller makes the same call again (same operation, path and params)
Repeat(c) ==
    LET call == calls[c]
    IN  /\ Finished(call)
        /\ call.attempt < MaxAttempts
        /\ Start(c, call.op, call.path, call.params, call.attempt + 1)
        /\ UNCHANGED <<client, route_map>>

\* the caller drops the finished call
Reset(c) ==
    /\ Finished(calls[c])
    /\ calls' = [calls EXCEPT ![c] = IdleCall]
    /\ UNCHANGED <<client, route_map>>

(***************************************************************************)
(* The inputs: what callers pass and what the remote API answers.          *)
(***************************************************************************)
\* an array in a response has at most this many items
MaxItems == 2

\* a mapping written as a record whose Absent entries are left out
Absent == [t |-> "absent"]
Mk(r) == DictV([k \in {x \in DOMAIN r : r[x].t # "absent"} |-> r[k]])

\* the parameter sets of the pipeline: params omitted, {}, and the parameter
\* sets the repository's tests call the handlers with
CallParams == {
    NullV,
    DictV(EmptyMap),
    DictV([year |-> IntV(2023)]),
    DictV([id |-> IntV(500)]),
    DictV([week |-> IntV(1)]),
    DictV([year |-> IntV(2023), season_type |-> StrV("regular")]),
    DictV([year |-> IntV(2023), week |-> IntV(1), team |-> StrV("Alabama")]),
    DictV([gameId |-> IntV(500)]),
    DictV([x |-> IntV(2)]) }

\* the paths callers ask for on top of the client's own routes: a route of
\* the remote API the client may not register, and a path nobody registers
CallPaths == {"/games", "/other"}

SampleOf(type, n) ==
    CASE type = "int" -> IntV(n)
      [] type = "str" -> StrV("x")
      [] type = "bool" -> BoolV(TRUE)
      [] type = "float" -> FloatV(50 * n)
      [] type = "datetime" -> StrV("2024-08-01T00:00:00Z")
      [] OTHER -> DictV(EmptyMap)

RequiredOf(fs) == {i \in DOMAIN fs : fs[i].required}

RECURSIVE WellFormed(_, _)

SampleField(f, n) ==
    IF f.type \in ResponseModels THEN WellFormed(f.type, n)
    ELSE SampleOf(f.type, n)

WellFormedOf(fs, req, n) ==
    DictV([a \in {fs[i].alias : i \in req} |->
            SampleField(fs[CHOOSE i \in req : fs[i].alias = a], n)])

\* an object that carries exactly the required fields of the model, under
\* their aliases, with int fields set to n
WellFormed(model, n) ==
    WellFormedOf(ModelFields(model), RequiredOf(ModelFields(model)), n)

FirstOf(fs, req) == fs[CHOOSE j \in req : \A k \in req : j <= k].alias

\* the alias of the model's first required field
FirstRequired(model) ==
    FirstOf(ModelFields(model), RequiredOf(ModelFields(model)))

Without(obj, key) == DictV([k \in DOMAIN obj.d \ {key} |-> obj.d[k]])
NullAt(obj, key) == DictV([obj.d EXCEPT ![key] = NullV])

\* the objects the API may answer with where `model` is expected: two
\* well-formed ones and one missing a required field
ObjSamples(model) ==
    IF model = ""
    THEN {DictV([ok |-> BoolV(TRUE)]), DictV([id |-> IntV(1)])}
    ELSE {WellFormed(model, 1), WellFormed(model, 2),
          Without(WellFormed(model, 1), FirstRequired(model))}

\* an object whose first required field is null
NullSample(model) ==
    IF model = "" THEN DictV([ok |-> NullV])
    ELSE NullAt(WellFormed(model, 2), FirstRequired(model))

SeqsUpTo(S, n) == UNION {[1 .. k -> S] : k \in 0 .. n}

BodiesOf(objs, nulled) ==
    {ListV(xs) : xs \in SeqsUpTo(objs, MaxItems)}
        \cup objs
        \cup {nulled, ListV(<<nulled>>)}
        \cup {NullV, IntV(5), StrV("x")}

\* the JSON values a body may decode to: arrays, objects, scalars, null
JsonBodies(model) ==
    BodiesOf(ObjSamples(model), NullSample(model))
        \cup (IF model = "" THEN {}
              ELSE {ListV(<<WellFormed(model, 1), WellFormed(model, -1)>>)})
        \* a calendar week as the remote API spells it
        \cup (IF model # "CalendarWeek" THEN {}
              ELSE {ListV(<<DictV(
                        [season |-> IntV(2024), week |-> IntV(1),
                         season_type |-> StrV("regular"),
                         startDate |-> StrV("2024-08-01T00:00:00Z"),
                         endDate |-> StrV("2024-08-07T23:59:59Z"),
                         firstGameStart |-> StrV("2024-08-01T00:00:00Z"),
                         lastGameStart |-> StrV("2024-08-02T00:00:00Z")])>>)})

\* the responses of the remote API
Responses(model) ==
    {HttpResponse(200, TRUE, j) : j \in JsonBodies(model)}
        \cup {HttpResponse(404, TRUE, DictV([message |-> StrV("Not Found")])),
              HttpResponse(500, FALSE, NullV),
              HttpResponse(200, FALSE, NullV)}

\* the shape the remote API answers with on a path
ApiModel(path) ==
    CASE path = "/games" -> "Game"
      [] path = "/records" -> "TeamRecords"
      [] path = "/calendar" -> "CalendarWeek"
      [] path = "/games/media" -> "GameMedia"
      [] path = "/games/weather" -> "GameWeather"
      [] path = "/games/players" -> "PlayerGameStats"
      [] path = "/games/teams" -> "TeamGameStats"
      [] path = "/game/box/advanced" -> "AdvancedBoxScore"
      [] path = "/drives" -> "Drive"
      [] OTHER -> ""

(***************************************************************************)
(* The specification: one client, constructed once, and its calls run one  *)
(* at a time.                                                              *)
(***************************************************************************)
Init ==
    /\ \E cls \in Classes :
          /\ client = __init__(cls, "fake", DefaultBaseUrl)
          /\ route_map = _discover_routes(cls)
    /\ calls = [c \in CallIds |-> IdleCall]

Call(c) == CallFrom(c, DOMAIN route_map \cup CallPaths, CallParams)

Respond(c) ==
    \E resp \in Responses(ApiModel(calls[c].endpoint)) :
        _make_request_resume(c, resp)

Next ==
    \E c \in CallIds :
        \/ Call(c)
        \/ CFBDAPIBase_make_request(c)
        \/ Handler(c)
        \/ _make_request(c)
        \/ Respond(c)
        \/ CFBDValidationAPI_make_request(c)
        \/ CFBDPanderaAPI_make_request_pandas(c)
        \/ Repeat(c)
        \/ Reset(c)

Spec == Init /\ [][Next]_vars

(***************************************************************************)
(* The request side on its own: the library's clients called with a wide   *)
(* range of parameter sets, the remote API answering with an empty array   *)
(* or an error status.                                                     *)
(***************************************************************************)
YearInputs == {Absent, NullV, IntV(2023), IntV(1868), StrV("2023")}
IdInputs == {Absent, NullV, IntV(0), IntV(500)}
WeekInputs == {Absent, IntV(0), IntV(21)}

\* year, id and week in and out of range, given, null or left out
YearIdParams ==
    {Mk([year |-> y, id |-> i, week |-> w]) :
        y \in YearInputs, i \in IdInputs, w \in WeekInputs}

\* fields given under their external name, their python name, or both
AliasParams ==
    {Mk([year |-> IntV(2023), seasonType |-> a, season_type |-> b,
         gameId |-> g, mediaType |-> mt, offense_conference |-> oc]) :
        a \in {Absent, StrV("regular"), StrV("bogus")},
        b \in {Absent, StrV("postseason")},
        g \in {Absent, IntV(500)},
        mt \in {Absent, StrV("tv")},
        oc \in {Absent, StrV("SEC")}}

\* zero, the empty string and null as values
FalsyParams ==
    {Mk([year |-> y, week |-> w, team |-> t, conference |-> cf,
         game_id |-> g]) :
        y \in {Absent, IntV(2023)},
        w \in {Absent, IntV(0), IntV(1)},
        t \in {Absent, StrV(""), StrV("Alabama"), NullV},
        cf \in {Absent, StrV("")},
        g \in {Absent, IntV(0)}}

\* season_type and classification inside and outside their vocabulary
EnumParams ==
    {Mk([year |-> IntV(2023), week |-> IntV(1), seasonType |-> a,
         season_type |-> b, classification |-> cl]) :
        a \in {Absent} \cup
              {StrV(x) : x \in {"regular", "postseason", "both", "allstar",
                                "spring_regular", "spring_postseason",
                                "Regular"}},
        b \in {Absent, StrV("invalid_type")},
        cl \in {Absent} \cup
               {StrV(x) : x \in {"fbs", "fcs", "ii", "iii", "FBS"}}}

\* year, week and the game id on both sides of their bounds
RangeParams ==
    {Mk([year |-> IntV(y), week |-> w, id |-> g, gameId |-> g]) :
        y \in {1868, 1869, 2025, 2026, 2030, 2031},
        w \in {Absent, IntV(-1), IntV(0), IntV(1), IntV(20), IntV(21)},
        g \in {Absent, IntV(-1), IntV(0)}}

ReqParams ==
    YearIdParams \cup AliasParams \cup FalsyParams \cup EnumParams
        \cup RangeParams \cup {NullV}

ReqClasses == {cls \in Classes : cls.name \in {"CFBDGamesAPI", "CFBDDrivesAPI"}}

ReqResponses ==
    {HttpResponse(200, TRUE, ListV(<<>>)),
     HttpResponse(404, TRUE, DictV([message |-> StrV("Not Found")]))}

InitReq ==
    /\ \E cls \in ReqClasses :
          /\ client = __init__(cls, "fake", DefaultBaseUrl)
          /\ route_map = _discover_routes(cls)
    /\ calls = [c \in CallIds |-> IdleCall]

CallReq(c) == CallFrom(c, DOMAIN route_map, ReqParams)

\* what a caller passes to validate_at_least_one_of
AtLeastOneValues ==
    LET inputs == {Absent, NullV, IntV(0), StrV(""), StrV("value1")}
    IN  {Mk([field1 |-> a, field2 |-> b, field3 |-> d]) :
            a \in inputs, b \in inputs, d \in inputs}

AtLeastOneFields == {<<"field1", "field2", "field3">>, <<"field2", "field3">>}

DefaultContextMessage == "At least one of the following fields is required"

\* a finished direct call of a shared validator: it returned None or raised
ValidatorCall(op, values, field_names, context_message, err) ==
    [IdleCall EXCEPT
        !.pc = IF err.raised THEN "raised" ELSE "returned",
        !.op = op,
        !.params = values,
        !.args = [field_names |-> field_names,
                  context_message |-> context_message],
        !.outcome = IF err.raised THEN Raise("ValueError", <<>>, err.msg)
                    ELSE Return(NullV)]

\* a caller applies validate_at_least_one_of to a mapping of its own
CallValidateAtLeastOneOf(c) ==
    /\ \A d \in CallIds : calls[d].pc = "idle" /\ c <= d
    /\ \E values \in AtLeastOneValues, field_names \in AtLeastOneFields :
          calls' = [calls EXCEPT ![c] =
              ValidatorCall("validate_at_least_one_of", values, field_names,
                            DefaultContextMessage,
                            validate_at_least_one_of(values, field_names,
                                                     DefaultContextMessage))]
    /\ UNCHANGED <<client, route_map>>

RespondReq(c) == \E resp \in ReqResponses : _make_request_resume(c, resp)

NextReq ==
    \E c \in CallIds :
        \/ CallReq(c)
        \/ CallValidateAtLeastOneOf(c)
        \/ CFBDAPIBase_make_request(c)
        \/ Handler(c)
        \/ _make_request(c)
        \/ RespondReq(c)
        \/ Reset(c)

SpecReq == InitReq /\ [][NextReq]_vars

(***************************************************************************)
(* Concurrent calls: a caller issues several make_request calls on one     *)
(* client without awaiting each in turn (asyncio.gather); the calls        *)
(* interleave at their steps.                                              *)
(***************************************************************************)
ConcClasses ==
    {cls \in Classes : cls.name \in {"CFBDGamesAPI", "CFBDGamesValidationAPI"}}

ConcResponses ==
    {HttpResponse(200, TRUE, ListV(<<WellFormed("CalendarWeek", 1)>>)),
     HttpResponse(200, TRUE, ListV(<<NullSample("CalendarWeek")>>)),
     HttpResponse(404, TRUE, DictV([message |-> StrV("Not Found")]))}

InitConc ==
    /\ \E cls \in ConcClasses :
          /\ client = __init__(cls, "fake", DefaultBaseUrl)
          /\ route_map = _discover_routes(cls)
    /\ calls = [c \in CallIds |-> IdleCall]

\* a call is started while others are in flight; the caller picks up the
\* finished ones (Reset) before it issues more
CallConc(c) ==
    /\ calls[c].pc = "idle"
    /\ \A d \in CallIds : ~Finished(calls[d])
    /\ \E path \in {"/calendar", "/other"},
          params \in {NullV, Mk([year |-> IntV(2023)])} :
          Start(c, "make_request", path, params, 1)
    /\ UNCHANGED <<client, route_map>>

RespondConc(c) == \E resp \in ConcResponses : _make_request_resume(c, resp)

NextConc ==
    \E c \in CallIds :
        \/ CallConc(c)
        \/ CFBDAPIBase_make_request(c)
        \/ Handler(c)
        \/ _make_request(c)
        \/ RespondConc(c)
        \/ CFBDValidationAPI_make_request(c)
        \/ Reset(c)

SpecConc == InitConc /\ [][NextConc]_vars

(***************************************************************************)
(* Properties of the calls.  Each is stated over the history a call keeps  *)
(* in its log and over the inputs it was given.                            *)
(***************************************************************************)
\* the positions of the log entries of kind ev
Positions(call, ev) == {i \in DOMAIN call.log : call.log[i].ev = ev}

\* the request model of the handler the call runs ("" when it has none)
RequestModelOf(call) == MethodNamed(client.cls, call.handler).request

\* the call runs a handler that validates its params
Validates(call) == call.handler # "" /\ RequestModelOf(call) # ""

\* the handler's params pass Request.model_validate
ParamsValid(call) == model_validate(RequestModelOf(call), call.args).ok

\* the handler of the call has run
HandlerRan(call) == call.handler # "" /\ call.pc # "handler"

\* the JSON value the transport decoded from the response
ResponseJson(call) ==
    call.log[CHOOSE i \in Positions(call, "response") : TRUE].json

\* the call went through CFBDValidationAPI.make_request to its end
LayerDone(call) ==
    /\ call.op = "make_request"
    /\ client.layer # "base"
    /\ Finished(call)
    /\ Positions(call, "response_validation") # {}

ItemsValid(model, xs) == \A i \in DOMAIN xs : model_validate(model, xs[i]).ok

C1_Holds(call) ==
    /\ ~ParamsValid(call) =>
          /\ Positions(call, "transport") = {}
          /\ Gets(call) = 0
          /\ HandlerRan(call) =>
                /\ call.pc = "raised"
                /\ call.outcome.type = "ValidationError"
    /\ \A i \in Positions(call, "transport") :
          /\ ParamsValid(call)
          /\ \E j \in 1 .. i - 1 :
                call.log[j] = [ev |-> "request_validation",
                               model |-> RequestModelOf(call), ok |-> TRUE]

\* C1: for every handler that validates its params and every parameter set,
\* params that fail request validation never reach _make_request (no
\* transport invocation, no GET; the call ends in the validation error), and
\* every transport invocation of the call comes after a successful
\* validation of the call's params.
C1_ValidationPrecedesTransport ==
    \A c \in CallIds : Validates(calls[c]) => C1_Holds(calls[c])

C1_Witness ==
    \E c \in CallIds :
        /\ calls[c].handler = "_get_games"
        /\ calls[c].pc = "raised"
        /\ ~ParamsValid(calls[c])
        /\ calls[c].args # DictV(EmptyMap)
        /\ Gets(calls[c]) = 0

C2_Holds(call, model) ==
    /\ (call.data.t = "list" /\ ~ItemsValid(model, call.data.xs)) =>
          /\ call.pc = "raised"
          /\ call.outcome.kind = "raise"
          /\ call.outcome.type = "ValidationError"
    /\ (call.data.t = "list" /\ call.pc = "returned") =>
          /\ call.outcome.v.t = "list"
          /\ Len(call.outcome.v.xs) = Len(call.data.xs)

\* C2: on a validating client, for a path with a response model and a JSON
\* array of N objects from the transport, one object that fails record
\* validation makes the call raise a validation error; the call never
\* returns a list of fewer than N records.
C2_InvalidRecordAbortsCall ==
    \A c \in CallIds :
        (LayerDone(calls[c])
            /\ ResponseModelOf(client.cls, route_map, calls[c].path) # "") =>
        C2_Holds(calls[c],
                 ResponseModelOf(client.cls, route_map, calls[c].path))

C2_Witness ==
    \E c \in CallIds :
        /\ LayerDone(calls[c])
        /\ calls[c].path = "/games"
        /\ calls[c].data.t = "list"
        /\ Len(calls[c].data.xs) = 2
        /\ model_validate("Game", calls[c].data.xs[1]).ok
        /\ ~model_validate("Game", calls[c].data.xs[2]).ok
        /\ calls[c].outcome.kind = "raise"

C3_Holds(call, model) ==
    (call.data.t = "list" /\ ItemsValid(model, call.data.xs)) =>
        /\ call.pc = "returned"
        /\ call.outcome =
              Return(ListV([i \in DOMAIN call.data.xs |->
                              model_validate(model, call.data.xs[i]).v]))

\* C3: on a validating client, for a path with a response model, a JSON
\* array of N >= 0 well-formed objects is returned as a list of exactly N
\* records, the i-th record being the validated form of the i-th object.
C3_RecordsInOrder ==
    \A c \in CallIds :
        (LayerDone(calls[c])
            /\ ResponseModelOf(client.cls, route_map, calls[c].path) # "") =>
        C3_Holds(calls[c],
                 ResponseModelOf(client.cls, route_map, calls[c].path))

C3_Witness ==
    \E c \in CallIds :
        /\ LayerDone(calls[c])
        /\ calls[c].path = "/drives"
        /\ calls[c].data.t = "list"
        /\ Len(calls[c].data.xs) = 2
        /\ calls[c].data.xs[1] # calls[c].data.xs[2]
        /\ calls[c].pc = "returned"

\* the params of the call pass request validation, or nothing validates them
PassesRequestValidation(call) ==
    \/ call.handler = ""
    \/ RequestModelOf(call) = ""
    \/ ParamsValid(call)

C4_Holds(call) ==
    /\ Gets(call) <= 1
    /\ Cardinality(Positions(call, "response")) <= Gets(call)
    /\ call.pc \in {"awaiting", "validate"} => Gets(call) = 1
    /\ (Finished(call) /\ PassesRequestValidation(call)) => Gets(call) = 1

\* C4: every logical call (make_request on any layer, or a direct handler
\* call) whose params pass request validation performs exactly one GET: never
\* two, none after a failed response, and a repeated call performs its own.
C4_OneGetPerCall ==
    \A c \in CallIds :
        calls[c].op \in {"make_request", "handler"} => C4_Holds(calls[c])

C4_Witness ==
    \E c \in CallIds :
        /\ calls[c].attempt = 2
        /\ calls[c].pc = "returned"
        /\ calls[c].path = "/games"
        /\ Gets(calls[c]) = 1

\* the params the dispatcher hands to a handler
DispatchedParams(params) == IF IsNull(params) THEN DictV(EmptyMap) ELSE params

C5_Registered(call) ==
    /\ Cardinality(Positions(call, "handler")) = 1
    /\ call.log[2] = [ev |-> "handler", name |-> route_map[call.path],
                      params |-> DispatchedParams(call.params),
                      by |-> "make_request"]
    /\ \A i \in Positions(call, "transport") : call.log[i].by = "handler"
    /\ (client.layer = "base" /\ call.pc = "returned") =>
            call.outcome = Return(ResponseJson(call))

C5_Unregistered(call) ==
    /\ Positions(call, "handler") = {}
    /\ Positions(call, "request_validation") = {}
    /\ Cardinality(Positions(call, "transport")) = 1
    /\ call.log[2] = [ev |-> "transport", endpoint |-> call.path,
                      params |-> call.params, by |-> "make_request"]
    /\ \A i \in Positions(call, "get") :
            /\ call.log[i].params = call.params
            /\ call.log[i].url = client.base_url \o call.path
    /\ (client.layer = "base" /\ call.pc = "returned") =>
            call.outcome = Return(ResponseJson(call))

\* C5: CFBDAPIBase.make_request(path, params) invokes the handler registered
\* for path exactly once with the caller's params ({} when params is None),
\* returns its result and makes no transport call of its own; for a path
\* that is not registered it invokes the transport exactly once with the
\* same path and params, without request validation, and returns its result.
C5_Dispatch ==
    \A c \in CallIds :
        (calls[c].op = "make_request" /\ calls[c].pc # "make_request") =>
            IF calls[c].path \in DOMAIN route_map
            THEN C5_Registered(calls[c])
            ELSE C5_Unregistered(calls[c])

C5_Witness ==
    \E c \in CallIds :
        /\ calls[c].op = "make_request"
        /\ calls[c].path = "/calendar"
        /\ calls[c].path \in DOMAIN route_map
        /\ IsNull(calls[c].params)
        /\ calls[c].pc = "raised"
        /\ client.cls = "CFBDGamesAPI"

\* the members of the client's class that carry @route metadata
RouteMembers(ms) == {i \in DOMAIN ms : ms[i].callable /\ ms[i].has_api_path}

C6_Holds(ms) ==
    /\ DOMAIN route_map = {ms[i].path : i \in RouteMembers(ms)}
    /\ \A p \in DOMAIN route_map :
          \E i \in RouteMembers(ms) :
              /\ ms[i].name = route_map[p]
              /\ ms[i].path = p
              /\ ResponseModelOf(client.cls, route_map, p) = ms[i].response_model
              /\ MethodNamed(client.cls, route_map[p]).dataframe_schema =
                    ms[i].dataframe_schema

\* C6: in every state reachable after construction the route map binds
\* exactly the paths of the client's route-decorated methods, each to the
\* method decorated with that path, whatever operations have run since.
C6_RouteMapFixed == C6_Holds(ClassNamed(client.cls).members)

C6_Witness ==
    \E c \in CallIds :
        /\ client.cls = "CFBDGamesPandasAPI"
        /\ Finished(calls[c])
        /\ calls[c].attempt = 2
        /\ calls[c].handler = "_get_games"
        /\ Cardinality(DOMAIN route_map) = 8
        /\ route_map["/games"] = "_get_games"

IsRecordOf(model, v) == v.t = "model" /\ v.cls = model

C7_Holds(call, model) ==
    /\ (call.data.t = "list" /\ call.pc = "returned") =>
          /\ call.outcome.v.t = "list"
          /\ \A i \in DOMAIN call.outcome.v.xs :
                IsRecordOf(model, call.outcome.v.xs[i])
    /\ (call.data.t = "dict" /\ call.pc = "returned") =>
          IsRecordOf(model, call.outcome.v)
    /\ (call.data.t = "dict" /\ model_validate(model, call.data).ok) =>
          call.outcome = Return(model_validate(model, call.data).v)
    /\ call.data.t \notin {"list", "dict"} =>
          call.outcome =
              Raise("TypeError", <<>>, "Response data must be list or dict")

\* C7: on a validating client, for a path with a response model, a JSON
\* array yields a list of records, a JSON object yields a single record (not
\* a list of one), and any other JSON value makes the call fail with
\* "Response data must be list or dict".
C7_ResponseShapes ==
    \A c \in CallIds :
        (LayerDone(calls[c])
            /\ ResponseModelOf(client.cls, route_map, calls[c].path) # "") =>
        C7_Holds(calls[c],
                 ResponseModelOf(client.cls, route_map, calls[c].path))

C7_Witness ==
    \E c \in CallIds :
        /\ LayerDone(calls[c])
        /\ calls[c].path = "/games"
        /\ calls[c].data = IntV(5)
        /\ calls[c].pc = "raised"
        /\ calls[c].outcome.type = "TypeError"

\* C8: on a validating client, when the path has no response model (it is
\* not in the route map, or its handler carries none), make_request returns
\* exactly the JSON value the underlying call produced, whatever its shape.
C8_PassThrough ==
    \A c \in CallIds :
        (LayerDone(calls[c])
            /\ ResponseModelOf(client.cls, route_map, calls[c].path) = "") =>
        /\ calls[c].pc = "returned"
        /\ calls[c].outcome = Return(ResponseJson(calls[c]))

C8_Witness ==
    \E c \in CallIds :
        /\ LayerDone(calls[c])
        /\ calls[c].path = "/dummy"
        /\ calls[c].path \in DOMAIN route_map
        /\ ResponseJson(calls[c]) = NullV
        /\ calls[c].pc = "returned"

\* the name the remote API knows a request field by
ExternalName(n) ==
    CASE n = "season_type" -> "seasonType"
      [] n = "game_id" -> "gameId"
      [] n = "media_type" -> "mediaType"
      [] n = "offense_conference" -> "offenseConference"
      [] n = "defense_conference" -> "defenseConference"
      [] OTHER -> n

NonNull(f) == {n \in DOMAIN f : ~IsNull(f[n])}

\* sent is the validated fields f less the null ones, under external names
Normalized(sent, f, args) ==
    /\ sent.t = "dict"
    /\ DOMAIN sent.d = {ExternalName(n) : n \in NonNull(f)}
    /\ \A n \in NonNull(f) : sent.d[ExternalName(n)] = f[n]
    /\ \A k \in DOMAIN sent.d :
          /\ ~IsNull(sent.d[k])
          /\ (sent.d[k].t = "enum" /\ k \in DOMAIN args.d) =>
                PyStr(sent.d[k]) = args.d[k].s

C9_Holds(call) ==
    /\ Normalized(call.sent,
                  model_validate(RequestModelOf(call), call.args).v.f,
                  call.args)
    /\ \A i \in Positions(call, "transport") :
          call.log[i].params = call.sent
    /\ \A i \in Positions(call, "get") : call.log[i].params = call.sent

\* C9: for every handler and every parameter set that passes validation, the
\* mapping handed to the transport holds exactly the validated fields whose
\* value is not null, keyed by the external name, enumerated values being
\* their literal strings; zero and the empty string are kept.
C9_NormalizedParams ==
    \A c \in CallIds :
        (Validates(calls[c]) /\ Positions(calls[c], "transport") # {}) =>
            C9_Holds(calls[c])

C9_Witness ==
    \E c \in CallIds :
        /\ calls[c].handler = "_get_team_game_stats"
        /\ Positions(calls[c], "get") # {}
        /\ DOMAIN calls[c].sent.d = {"year", "seasonType", "gameId"}
        /\ PyStr(calls[c].sent.d["seasonType"]) = "regular"

\* a field of the parameter set is given and is not null
Given(args, k) == k \in DOMAIN args.d /\ ~IsNull(args.d[k])

\* every field of the model, taken alone, accepts what the parameter set
\* gives for it
FieldsInRange(model, fs, args) ==
    \A i \in DOMAIN fs : ValidateField(model, fs[i], <<>>, args.d).ok

C10_Holds(call) ==
    /\ (Positions(call, "transport") # {}) <=>
          (Given(call.args, "year") \/ Given(call.args, "id"))
    /\ ~(Given(call.args, "year") \/ Given(call.args, "id")) =>
          call.outcome =
              Raise("ValidationError",
                    <<Err(<<>>, "value_error", call.args,
                          "year is required when id is not specified")>>,
                    "GamesRequest")

\* C10: for every parameter set of /games whose field values are in range,
\* GamesRequest validation succeeds exactly when year or id is not null;
\* with both null it fails with "year is required when id is not specified".
C10_YearOrId ==
    \A c \in CallIds :
        (/\ calls[c].handler = "_get_games"
         /\ calls[c].pc # "handler"
         /\ calls[c].args.t = "dict"
         /\ FieldsInRange("GamesRequest", GamesRequest, calls[c].args)) =>
            C10_Holds(calls[c])

C10_Witness ==
    \E c \in CallIds :
        /\ calls[c].handler = "_get_games"
        /\ calls[c].args = DictV([year |-> NullV, week |-> IntV(0)])
        /\ calls[c].pc = "raised"
        /\ calls[c].outcome.type = "ValidationError"

\* the call is a direct call of the named shared validator
ValidatorRan(call, op) == call.op = op /\ Finished(call)

\* the error a request model's after-validator ends the call with
RootValueError(call, model, msg) ==
    Raise("ValidationError", <<Err(<<>>, "value_error", call.args, msg)>>,
          model)

\* the call ran the /games/teams handler on a mapping whose fields are each
\* acceptable
TeamStatsCall(call) ==
    /\ call.handler = "_get_team_game_stats"
    /\ call.pc # "handler"
    /\ call.args.t = "dict"
    /\ FieldsInRange("TeamGameStatsRequest", TeamGameStatsRequest, call.args)

GameIdGiven(args) == Given(args, "gameId") \/ Given(args, "game_id")

FilterGiven(args) ==
    Given(args, "week") \/ Given(args, "team") \/ Given(args, "conference")

C11_Function(call) ==
    (call.pc = "returned") <=>
        \E i \in DOMAIN call.args.field_names :
            /\ call.args.field_names[i] \in DOMAIN call.params.d
            /\ call.params.d[call.args.field_names[i]] # NullV

C11_TeamStats(call) ==
    /\ (Positions(call, "transport") # {}) <=> FilterGiven(call.args)
    /\ ~FilterGiven(call.args) =>
          call.outcome =
              RootValueError(call, "TeamGameStatsRequest",
                  "At least one of week, team, or conference is required when game_id is not specified")

\* C11: presence in the at-least-one-of checks is "is not null", never
\* truthiness.  validate_at_least_one_of returns exactly when one of the
\* named fields has a value other than null (0 and "" count) and raises
\* otherwise; on /games/teams with year given and game_id not given, the
\* params reach the transport exactly when week, team or conference is not
\* null, so week = 0 alone or team = "" alone is enough.
C11_PresenceIsNotNull ==
    \A c \in CallIds :
        /\ ValidatorRan(calls[c], "validate_at_least_one_of") =>
              C11_Function(calls[c])
        /\ (/\ TeamStatsCall(calls[c])
            /\ Given(calls[c].args, "year")
            /\ ~GameIdGiven(calls[c].args)) => C11_TeamStats(calls[c])

C11_Witness ==
    \E c \in CallIds :
        /\ calls[c].handler = "_get_team_game_stats"
        /\ calls[c].args = DictV([year |-> IntV(2023), team |-> StrV("")])
        /\ Positions(calls[c], "get") # {}
        /\ calls[c].sent = DictV([year |-> IntV(2023), team |-> StrV("")])

C12_Accepted(call) == Positions(call, "transport") # {}

C12_Holds(call) ==
    /\ C12_Accepted(call) <=>
          \/ GameIdGiven(call.args)
          \/ Given(call.args, "year") /\ FilterGiven(call.args)
    /\ (~Given(call.args, "year") /\ ~GameIdGiven(call.args)) =>
          call.outcome =
              RootValueError(call, "TeamGameStatsRequest",
                             "year is required when game_id is not specified")

C13_Holds(call) ==
    /\ Positions(call, "transport") # {}
    /\ \A i \in Positions(call, "request_validation") :
          call.log[i].model = "TeamGameStatsRequest" /\ call.log[i].ok
    /\ "gameId" \in DOMAIN call.sent.d
    /\ call.pc = "raised" => call.outcome.type # "ValidationError"

\* C13: on /games/teams a game_id that is not null lifts the year and the
\* filter requirements: every parameter set that gives game_id and whose
\* fields are each acceptable passes validation and is handed to the
\* transport, whether or not year, week, team or conference are given.
C13_GameIdBypass ==
    \A c \in CallIds :
        (TeamStatsCall(calls[c]) /\ GameIdGiven(calls[c].args)) =>
            C13_Holds(calls[c])

C13_Witness ==
    \E c \in CallIds :
        /\ calls[c].handler = "_get_team_game_stats"
        /\ calls[c].args = DictV([game_id |-> IntV(0)])
        /\ calls[c].sent = DictV([gameId |-> IntV(0)])
        /\ calls[c].pc = "returned"

\* r is the validation of the normalized params: it succeeds and
\* normalizes to the same mapping
C14_Fixpoint(sent, r) ==
    /\ r.ok
    /\ DictV(model_dump(r.v, TRUE, TRUE)) = sent

\* C14: normalization is idempotent.  For every request model and every
\* parameter set that passes its validation, the normalized mapping handed
\* to the transport passes validation of the same model, and normalizing it
\* again yields the same mapping.
C14_NormalizationIdempotent ==
    \A c \in CallIds :
        (Validates(calls[c]) /\ Positions(calls[c], "transport") # {}) =>
            C14_Fixpoint(calls[c].sent,
                         model_validate(RequestModelOf(calls[c]), calls[c].sent))

C14_Witness ==
    \E c \in CallIds :
        /\ calls[c].handler = "_get_game_media"
        /\ Positions(calls[c], "transport") # {}
        /\ "season_type" \in DOMAIN calls[c].args.d
        /\ "mediaType" \in DOMAIN calls[c].sent.d
        /\ calls[c].sent # calls[c].args
        /\ calls[c].sent.d["seasonType"] = EnumV("SeasonType", "postseason")

\* the fields of a request model that hold a SeasonType or a Classification
EnumFields(fs) ==
    {i \in DOMAIN fs : fs[i].type \in {"SeasonType", "Classification"}}

\* the closed vocabularies as the specification lists them
C15_Vocabulary(type) ==
    IF type = "SeasonType"
    THEN {"regular", "postseason", "both", "allstar", "spring_regular",
          "spring_postseason"}
    ELSE {"fbs", "fcs", "ii", "iii"}

\* the error entries of the call located at key
ErrorsAt(call, key) ==
    IF call.pc = "raised" /\ call.outcome.type = "ValidationError"
    THEN {i \in DOMAIN call.outcome.errs : call.outcome.errs[i].loc = <<key>>}
    ELSE {}

\* field f of the call's params, read as lk, is a string: in the vocabulary
\* it raises no error and is sent as the member; outside it the call ends
\* in a validation error with an entry at the field, without any transport
C15_Field(call, f, lk) ==
    (lk.found /\ lk.v.t = "str") =>
        IF lk.v.s \in C15_Vocabulary(f.type)
        THEN /\ ErrorsAt(call, lk.key) = {}
             /\ Positions(call, "transport") # {} =>
                   call.sent.d[f.alias] = EnumV(f.type, lk.v.s)
        ELSE /\ call.pc = "raised"
             /\ \E i \in ErrorsAt(call, lk.key) :
                   /\ call.outcome.errs[i].type = "enum"
                   /\ call.outcome.errs[i].input = lk.v
             /\ Positions(call, "transport") = {}
             /\ Gets(call) = 0

\* every enumerated field the params give holds a member of its vocabulary
C15_Member(f, lk) ==
    (lk.found /\ lk.v.t = "str") => lk.v.s \in C15_Vocabulary(f.type)

C15_InVocabulary(model, fs, args) ==
    \A i \in EnumFields(fs) :
        C15_Member(fs[i], Lookup(model, fs[i], args.d))

C15_Holds(call, model, fs) ==
    /\ \A i \in EnumFields(fs) :
          C15_Field(call, fs[i], Lookup(model, fs[i], call.args.d))
    /\ (/\ Given(call.args, "year")
        /\ Given(call.args, "week")
        /\ C15_InVocabulary(model, fs, call.args)
        /\ FieldsInRange(model, [i \in DOMAIN fs \ EnumFields(fs) |-> fs[i]],
                         call.args)) =>
          Positions(call, "transport") # {}
    /\ ~C15_InVocabulary(model, fs, call.args) =>
          Positions(call, "transport") = {}

\* C15: for every request model with a season_type or classification field,
\* a value outside the vocabulary makes validation fail with an error entry
\* located at that field and carrying the input, and nothing is handed to
\* the transport; every value of the vocabulary is accepted: it raises no
\* entry at the field, is sent as the member of that name, and with year
\* and week given and every field acceptable the call reaches the
\* transport.
C15_ClosedVocabulary ==
    \A c \in CallIds :
        (/\ Validates(calls[c])
         /\ calls[c].pc # "handler"
         /\ calls[c].args.t = "dict") =>
            C15_Holds(calls[c], RequestModelOf(calls[c]),
                      RequestFields(RequestModelOf(calls[c])))

C15_Witness ==
    \E c \in CallIds :
        /\ calls[c].handler = "_get_game_media"
        /\ calls[c].pc = "raised"
        /\ calls[c].args.t = "dict"
        /\ "seasonType" \in DOMAIN calls[c].args.d
        /\ \E i \in ErrorsAt(calls[c], "classification") :
              calls[c].outcome.errs[i].input = StrV("FBS")
        /\ Gets(calls[c]) = 0

\* a spring season type is accepted and sent
C15_WitnessAccepted ==
    \E c \in CallIds :
        /\ calls[c].handler = "_get_games"
        /\ Positions(calls[c], "get") # {}
        /\ calls[c].args.t = "dict"
        /\ "seasonType" \in DOMAIN calls[c].args.d
        /\ calls[c].args.d["seasonType"] = StrV("spring_postseason")
        /\ PyStr(calls[c].sent.d["seasonType"]) = "spring_postseason"

\* the params break the cross-field rule of the call's request model
CrossFieldViolated(call) ==
    CASE call.handler = "_get_games" ->
            ~Given(call.args, "year") /\ ~Given(call.args, "id")
      [] call.handler = "_get_team_game_stats" ->
            /\ ~GameIdGiven(call.args)
            /\ ~Given(call.args, "year") \/ ~FilterGiven(call.args)
      [] OTHER -> FALSE

\* the error entries of the call raised by the model's own validator
RootErrors(call) ==
    IF call.pc = "raised" /\ call.outcome.type = "ValidationError"
    THEN {i \in DOMAIN call.outcome.errs :
            /\ call.outcome.errs[i].loc = <<>>
            /\ call.outcome.errs[i].type = "value_error"}
    ELSE {}

C16_FieldListed(call, lk, r) == ~r.ok => ErrorsAt(call, lk.key) # {}

C16_Holds(call, model, fs) ==
    /\ \A i \in DOMAIN fs :
          C16_FieldListed(call, Lookup(model, fs[i], call.args.d),
                          ValidateField(model, fs[i], <<>>, call.args.d))
    /\ CrossFieldViolated(call) => RootErrors(call) # {}

\* C16: when the params of a call break several request constraints at
\* once, the validation error of the call lists every one of them: an entry
\* at each field whose value is not acceptable, and an entry of the model's
\* cross-field rule when that rule is broken.
C16_AllViolationsListed ==
    \A c \in CallIds :
        (/\ Validates(calls[c])
         /\ calls[c].pc # "handler"
         /\ calls[c].args.t = "dict") =>
            C16_Holds(calls[c], RequestModelOf(calls[c]),
                      RequestFields(RequestModelOf(calls[c])))

\* the error entries of validating each item of xs on its own
RecordErrors(model, xs) ==
    Flatten([i \in DOMAIN xs |-> model_validate(model, xs[i]).errs])

C17_Holds(call, model, all) ==
    /\ call.pc = "raised"
    /\ call.outcome.type = "ValidationError"
    /\ Len(call.outcome.errs) = Len(all)
    /\ \A i \in DOMAIN all :
          \E k \in DOMAIN call.outcome.errs : call.outcome.errs[k] = all[i]

\* C17: on a validating client, when the array of a response holds several
\* records that fail validation, the validation error of the call lists
\* every invalid field of every invalid record, not those of the first
\* invalid record only.
C17_AllRecordsListed ==
    \A c \in CallIds :
        (/\ LayerDone(calls[c])
         /\ ResponseModelOf(client.cls, route_map, calls[c].path) # ""
         /\ calls[c].data.t = "list"
         /\ ~ItemsValid(ResponseModelOf(client.cls, route_map, calls[c].path),
                        calls[c].data.xs)) =>
            C17_Holds(calls[c],
                      ResponseModelOf(client.cls, route_map, calls[c].path),
                      RecordErrors(ResponseModelOf(client.cls, route_map,
                                                   calls[c].path),
                                   calls[c].data.xs))

\* the error _make_request raises on the response, if it raises one
TransportError(resp) ==
    IF resp.status >= 400
    THEN Raise("ClientResponseError", <<>>, ToString(resp.status))
    ELSE IF ~resp.decodes THEN Raise("JSONDecodeError", <<>>, "")
    ELSE NoOutcome

\* the call ended in the error out, raised by the step logged last
EndedIn(call, i, out) ==
    /\ i = Len(call.log)
    /\ call.pc = "raised"
    /\ call.outcome = out

C18_Request(call, i, r) ==
    ~call.log[i].ok =>
        /\ EndedIn(call, i, Raise("ValidationError", r.errs, call.log[i].model))
        /\ Gets(call) = 0

C18_Holds(call) ==
    /\ \A i \in Positions(call, "response") :
          TransportError(call.log[i]) # NoOutcome =>
              EndedIn(call, i, TransportError(call.log[i]))
    /\ \A i \in Positions(call, "request_validation") :
          C18_Request(call, i, model_validate(call.log[i].model, call.args))
    /\ \A i \in Positions(call, "response_validation") :
          ~call.log[i].ok =>
              EndedIn(call, i, ValidateResponse(call.log[i].model, call.data))
    /\ call.pc = "returned" =>
          /\ \A i \in Positions(call, "response") :
                TransportError(call.log[i]) = NoOutcome
          /\ \A i \in Positions(call, "request_validation") : call.log[i].ok
          /\ \A i \in Positions(call, "response_validation") : call.log[i].ok

\* C18: an error raised by a lower layer reaches the caller unchanged
\* through every layer above it.  The error _make_request raises on a
\* response, the validation error a handler raises on its params and the
\* error CFBDValidationAPI.make_request raises on the data are each the
\* outcome of the call, on base, validating and pandas-layer clients alike,
\* and no call returns a value after one of its layers failed.
C18_ErrorsPropagate ==
    \A c \in CallIds : C18_Holds(calls[c])

C18_Witness ==
    \E c \in CallIds :
        /\ client.layer = "pandas"
        /\ calls[c].op = "make_request"
        /\ calls[c].handler # ""
        /\ calls[c].pc = "raised"
        /\ calls[c].outcome = Raise("ClientResponseError", <<>>, "500")

\* a request-validation error through the layers of a validating client
C18_WitnessRequest ==
    \E c \in CallIds :
        /\ client.layer # "base"
        /\ calls[c].op = "make_request"
        /\ calls[c].handler # ""
        /\ calls[c].pc = "raised"
        /\ calls[c].outcome.type = "ValidationError"
        /\ Gets(calls[c]) = 0

\* the response the call's transport received
ResponseOf(call) == call.log[CHOOSE i \in Positions(call, "response") : TRUE]

\* The outcome of make_request(path, params) run on its own on a client of
\* class cls with routes `routes`, the transport answering resp: what
\* CFBDValidationAPI.make_request (when the client has that layer) makes of
\* the data,
SoloData(layer, model, resp) ==
    IF TransportError(resp) # NoOutcome THEN TransportError(resp)
    ELSE IF layer # "base" THEN ValidateResponse(model, resp.json)
    ELSE Return(resp.json)

\* after the handler m validated the params (request),
SoloHandled(layer, m, request, resp) ==
    IF m.request # "" /\ ~request.ok
    THEN Raise("ValidationError", request.errs, m.request)
    ELSE SoloData(layer, m.response_model, resp)

SoloRouted(layer, m, args, resp) ==
    SoloHandled(layer, m, model_validate(m.request, args), resp)

\* after the dispatch on the route map
Solo(cls, layer, routes, path, params, resp) ==
    IF path \in DOMAIN routes
    THEN SoloRouted(layer, MethodNamed(cls, routes[path]),
                    DispatchedParams(params), resp)
    ELSE SoloData(layer, "", resp)

C19_Holds(call) ==
    (call.op = "make_request" /\ Finished(call)) =>
        call.outcome =
            Solo(client.cls, client.layer, _discover_routes(ClassNamed(client.cls)),
                 call.path, call.params, ResponseOf(call))

\* C19: for every interleaving of concurrent calls on one client, the
\* outcome of every call, a value or an error, is the outcome of that call
\* run alone with the same transport response; and no call writes what the
\* calls share: the client's API key, base URL and headers and the route
\* map stay as the constructor left them.
C19_CallsIndependent ==
    /\ client = __init__(ClassNamed(client.cls), "fake", DefaultBaseUrl)
    /\ route_map = _discover_routes(ClassNamed(client.cls))
    /\ \A c \in CallIds : C19_Holds(calls[c])

C19_Witness ==
    \E c \in CallIds, d \in CallIds :
        /\ client.layer = "validation"
        /\ calls[c].pc = "returned"
        /\ calls[c].path = "/calendar"
        /\ calls[c].outcome.v.t = "list"
        /\ calls[c].outcome.v.xs[1].t = "model"
        /\ calls[d].pc = "awaiting"
        /\ calls[d].path = "/other"

\* the value is a table with one row per item of xs
IsDataFrameOf(v, xs) == v.t = "dataframe" /\ Len(v.rows) = Len(xs)

C20_Shape(call, layer, model, schema) ==
    IF model = "" THEN call.outcome = Return(call.data)
    ELSE IF layer = "pandas" /\ schema # ""
    THEN IsDataFrameOf(call.outcome.v, call.data.xs)
    ELSE /\ call.outcome.v.t = "list"
         /\ Len(call.outcome.v.xs) = Len(call.data.xs)
         /\ \A i \in DOMAIN call.outcome.v.xs :
               IsRecordOf(model, call.outcome.v.xs[i])

C20_Holds(call, m) ==
    (/\ call.data.t = "list"
     /\ m.response_model # "" => ItemsValid(m.response_model, call.data.xs)) =>
        /\ call.pc = "returned"
        /\ C20_Shape(call, client.layer, m.response_model, m.dataframe_schema)

\* C20: the shape make_request returns follows the validation layer of the
\* path.  For an array of well-formed objects from the transport, a
\* pandas-layer client returns, on a path registered with a response model
\* and a dataframe schema, a table with one row per record; a validating
\* client returns the typed records; a path without response model returns
\* the JSON as it came.
C20_ReturnShape ==
    \A c \in CallIds :
        (LayerDone(calls[c]) /\ calls[c].handler # "") =>
            C20_Holds(calls[c], MethodNamed(client.cls, calls[c].handler))

\* a row of the /calendar table breaks a column declared ge=0
\* (CalendarWeekSchema: season, week)
C21_RowViolates(row) ==
    /\ row.t = "dict"
    /\ \E k \in {"season", "week"} \cap DOMAIN row.d :
          row.d[k].t = "int" /\ row.d[k].n < 0

\* C21: on a pandas-layer client, a row of the projected table that breaks
\* a column constraint (week = -1 against a column declared >= 0) aborts
\* the whole projection with a schema error; the call returns no table and
\* no other value.
C21_SchemaErrorAborts ==
    \A c \in CallIds :
        (/\ client.layer = "pandas"
         /\ LayerDone(calls[c])
         /\ calls[c].handler = "_get_calendar"
         /\ calls[c].data.t = "list"
         /\ \E i \in DOMAIN calls[c].data.xs :
               C21_RowViolates(calls[c].data.xs[i])) =>
            /\ calls[c].pc = "raised"
            /\ calls[c].outcome.type = "SchemaError"

\* the positions in dir(self) of the handlers decorated with path p
RoutesAt(ms, p) ==
    {i \in DOMAIN ms : ms[i].callable /\ ms[i].has_api_path /\ ms[i].path = p}

\* the handler decorated with path p that dir(self) lists last
LastAt(ms, p) ==
    ms[CHOOSE i \in RoutesAt(ms, p) : \A j \in RoutesAt(ms, p) : j <= i].name

C22_Holds(ms) ==
    /\ DOMAIN route_map = {ms[i].path : i \in RouteMembers(ms)}
    /\ \A p \in DOMAIN route_map : route_map[p] = LastAt(ms, p)
    /\ \A c \in CallIds :
          (calls[c].handler # "") =>
              /\ calls[c].path \in DOMAIN route_map
              /\ calls[c].handler = LastAt(ms, calls[c].path)

\* C22: when two decorated members of a client carry the same path, the
\* client is constructed all the same and its route map holds one entry
\* for the path, bound to the handler the scan meets last; no call through
\* make_request runs the earlier handler.
C22_LastRegistrationWins ==
    C22_Holds(ClassNamed(client.cls).members)

C22_Witness ==
    \E c \in CallIds :
        /\ client.cls = "DuplicateRouteAPI"
        /\ route_map = [p \in {"/dup"} |-> "_second"]
        /\ calls[c].op = "make_request"
        /\ calls[c].path = "/dup"
        /\ calls[c].handler = "_second"
        /\ calls[c].pc = "returned"

C23_Shapes ==
    {"GamesRequest", "GameWeatherRequest", "PlayerGameStatsRequest",
     "TeamGameStatsRequest"}

\* the handler of the call has validated a well-formed parameter set against
\* one of the request shapes that have a year and a game id
C23_Call(call) ==
    /\ HandlerRan(call)
    /\ RequestModelOf(call) \in C23_Shapes
    /\ call.args.t = "dict"
    /\ FieldsInRange(RequestModelOf(call), RequestFields(RequestModelOf(call)),
                     call.args)

C23_IdGiven(args) == Given(args, "id") \/ GameIdGiven(args)

C23_YearRequired(call) ==
    /\ call.pc = "raised"
    /\ call.outcome.type = "ValidationError"
    /\ Len(call.outcome.errs) = 1
    /\ call.outcome.errs[1].msg \in
          {"year is required when id is not specified",
           "year is required when game_id is not specified"}

C23_Holds(call) ==
    /\ (~Given(call.args, "year") /\ ~C23_IdGiven(call.args)) =>
          C23_YearRequired(call)
    /\ (/\ RequestModelOf(call) = "PlayerGameStatsRequest"
        /\ Given(call.args, "year")
        /\ ~C23_IdGiven(call.args)
        /\ ~FilterGiven(call.args)) =>
          /\ call.pc = "raised"
          /\ call.outcome.type = "ValidationError"

\* C23: each of GamesRequest, GameWeatherRequest, PlayerGameStatsRequest and
\* TeamGameStatsRequest rejects a parameter set whose year and game id are
\* both null with exactly one error, saying that year is required when the
\* id is not specified; PlayerGameStatsRequest also rejects a year that
\* comes without any of week, team and conference.
C23_YearOrIdEveryShape ==
    \A c \in CallIds : C23_Call(calls[c]) => C23_Holds(calls[c])

C24_Holds(call) ==
    (call.args.t = "dict" => "gameId" \notin DOMAIN call.args.d) =>
        /\ call.pc = "raised"
        /\ call.outcome.type = "ValidationError"
        /\ Positions(call, "transport") = {}

\* C24: _get_box_scores takes the game id under the external name gameId
\* only: a parameter set without the key gameId, one giving just game_id or
\* just id included, ends in a validation error and makes no transport
\* call.
C24_BoxScoresRequireGameId ==
    \A c \in CallIds :
        (HandlerRan(calls[c]) /\ calls[c].handler = "_get_box_scores") =>
            C24_Holds(calls[c])

\* the external names the request shape declares among year, week, id, gameId
C25_Keys(model) ==
    {RequestFields(model)[i].alias : i \in DOMAIN RequestFields(model)}
        \cap {"year", "week", "id", "gameId"}

\* the documented range of field k of the request shape
C25_InRange(model, k, n) ==
    CASE k = "year" ->
            n >= 1869 /\ n <= (IF model = "DrivesRequest" THEN 2025 ELSE 2030)
      [] k = "week" ->
            n >= (IF model = "DrivesRequest" THEN 1 ELSE 0) /\ n <= 20
      [] OTHER -> n >= 0

C25_Field(call, model, k) ==
    (k \in DOMAIN call.args.d /\ call.args.d[k].t = "int") =>
        IF C25_InRange(model, k, call.args.d[k].n)
        THEN ErrorsAt(call, k) = {}
        ELSE /\ ErrorsAt(call, k) # {}
             /\ Positions(call, "transport") = {}

C25_Holds(call) ==
    \A k \in C25_Keys(RequestModelOf(call)) :
        C25_Field(call, RequestModelOf(call), k)

\* C25: before any transport call, the game request shapes take a year
\* exactly when 1869 <= year <= 2030 and a week exactly when
\* 0 <= week <= 20, the drives request shape a year exactly when
\* 1869 <= year <= 2025 and a week exactly when 1 <= week <= 20, and every
\* shape an id or game id exactly when it is >= 0; a value out of range
\* fails validation with an error located at its field.
C25_NumericRanges ==
    \A c \in CallIds :
        (HandlerRan(calls[c]) /\ Validates(calls[c])
            /\ calls[c].args.t = "dict") => C25_Holds(calls[c])

\* drives with year 2025 and week 1 is sent, games with year 2030 and week 0
\* is sent, and drives with year 2030 and week 0 fails at both fields
C25_Witness ==
    \E c \in CallIds :
        /\ HandlerRan(calls[c])
        /\ RequestModelOf(calls[c]) = "DrivesRequest"
        /\ calls[c].args = DictV([year |-> IntV(2030), week |-> IntV(0)])
        /\ ErrorsAt(calls[c], "year") # {}
        /\ ErrorsAt(calls[c], "week") # {}

C25_WitnessAccepted ==
    \E c \in CallIds :
        /\ calls[c].handler = "_get_team_game_stats"
        /\ calls[c].args = DictV([year |-> IntV(2030), week |-> IntV(0)])
        /\ calls[c].sent = calls[c].args
        /\ calls[c].pc = "returned"

\* the GET at position i of the call's history is the one the transport is
\* to issue
C26_Get(call, i) ==
    /\ call.log[i].url = client.base_url \o call.endpoint
    /\ call.log[i].headers =
          [Authorization |-> "Bearer " \o client.api_key,
           Accept |-> "application/json"]
    /\ call.log[i].params = call.sent

\* what the transport makes of the response at position i
C26_Response(call, i) ==
    /\ call.log[i].status >= 400 =>
          /\ call.pc = "raised"
          /\ call.outcome.type = "ClientResponseError"
          /\ IsNull(call.data)
    /\ (call.log[i].status < 400 /\ ~call.log[i].decodes) =>
          /\ call.pc = "raised"
          /\ call.outcome.type # "ClientResponseError"
          /\ IsNull(call.data)

C26_Holds(call) ==
    /\ Gets(call) <= 1
    /\ \A i \in Positions(call, "get") : C26_Get(call, i)
    /\ \A i \in Positions(call, "response") :
          /\ \E j \in Positions(call, "get") : j < i
          /\ C26_Response(call, i)

\* C26: the transport issues one GET to base_url followed by the endpoint,
\* with the Authorization "Bearer <api_key>" and Accept headers set at
\* construction and the query parameters it was given; the status is
\* checked before the body is decoded, so a non-success status ends the
\* call in an error with no decoded body returned, and a body that does not
\* decode as JSON ends it in an error different from the status error.
C26_Transport ==
    \A c \in CallIds : C26_Holds(calls[c])

\* a 404 whose body decodes ends the call in the status error
C26_Witness ==
    \E c \in CallIds : \E i \in Positions(calls[c], "response") :
        /\ calls[c].log[i].status = 404
        /\ calls[c].log[i].decodes
        /\ calls[c].pc = "raised"
        /\ calls[c].outcome.type = "ClientResponseError"

\* a 200 whose body does not decode ends the call in the decoding error
C26_WitnessDecode ==
    \E c \in CallIds : \E i \in Positions(calls[c], "response") :
        /\ calls[c].log[i].status = 200
        /\ ~calls[c].log[i].decodes
        /\ calls[c].outcome = Raise("JSONDecodeError", <<>>, "")

\* the external names of the fields every record of the shape carries
C27_Names(model) ==
    CASE model = "CalendarWeek" ->
            {"season", "week", "season_type", "firstGameStart",
             "lastGameStart"}
      [] model = "Drive" ->
            {"offense", "defense", "gameId", "id", "scoring", "startPeriod",
             "startYardline", "startYardsToGoal", "startTime", "endPeriod",
             "endYardline", "endYardsToGoal", "endTime", "plays", "yards",
             "driveResult", "isHomeOffense", "startOffenseScore",
             "startDefenseScore", "endOffenseScore", "endDefenseScore"}

\* obj is one of the response objects of the model, keyed by the external
\* names
C27_External(model, obj) ==
    /\ obj.t = "dict"
    /\ C27_Names(model) \subseteq DOMAIN obj.d
    /\ \A k \in DOMAIN obj.d : ~IsNull(obj.d[k])
    /\ \A k \in {"season", "week", "startPeriod"} \cap DOMAIN obj.d :
          obj.d[k].t = "int" /\ obj.d[k].n >= 0

C27_Holds(call, model) ==
    (/\ call.data.t = "list"
     /\ \A i \in DOMAIN call.data.xs : C27_External(model, call.data.xs[i])) =>
        /\ call.pc = "returned"
        /\ call.outcome.v.t = "list"
        /\ Len(call.outcome.v.xs) = Len(call.data.xs)
        /\ \A i \in DOMAIN call.outcome.v.xs :
              IsRecordOf(model, call.outcome.v.xs[i])

\* C27: the validating client accepts response records keyed by the remote
\* API's camelCase names: a /calendar array whose objects carry
\* firstGameStart and lastGameStart with season, week and season_type
\* validates into CalendarWeek records, as /drives objects carrying gameId,
\* startPeriod and the rest validate into Drive records.
C27_ExternalNamesAccepted ==
    \A c \in CallIds :
        (/\ LayerDone(calls[c])
         /\ calls[c].path \in {"/calendar", "/drives"}
         /\ ResponseModelOf(client.cls, route_map, calls[c].path)
                \in {"CalendarWeek", "Drive"}) =>
            C27_Holds(calls[c],
                      ResponseModelOf(client.cls, route_map, calls[c].path))

\* the stage a step of a call belongs to: 1 request validation, 2 transport
\* GET, 3 response validation; 0 for the dispatch that comes before all
C28_Stage(ev) ==
    CASE ev = "request_validation" -> 1
      [] ev \in {"transport", "get", "response"} -> 2
      [] ev = "response_validation" -> 3
      [] OTHER -> 0

\* the step at position i of the call's history failed
C28_Failed(call, i) ==
    \/ /\ call.log[i].ev \in {"request_validation", "response_validation"}
       /\ ~call.log[i].ok
    \/ /\ call.log[i].ev = "response"
       /\ TransportError(call.log[i]) # NoOutcome

C28_Holds(call) ==
    /\ \A e \in {"request_validation", "transport", "get", "response",
                  "response_validation"} :
          Cardinality(Positions(call, e)) <= 1
    /\ \A i, j \in DOMAIN call.log :
          i < j => C28_Stage(call.log[i].ev) <= C28_Stage(call.log[j].ev)
    /\ \A i \in Positions(call, "get") :
          \E j \in Positions(call, "transport") : j < i
    /\ \A i \in Positions(call, "response") :
          \E j \in Positions(call, "get") : j < i
    /\ \A i \in DOMAIN call.log :
          C28_Failed(call, i) => i = Len(call.log) /\ call.pc = "raised"
    /\ (call.outcome.kind = "return" /\ call.outcome.v.t = "dataframe") =>
          \E i \in Positions(call, "response_validation") : call.log[i].ok

\* C28: the stages of one call come in the order request validation,
\* transport GET, response validation and, where there is one, projection
\* to a table, each at most once, and a stage that fails is the call's
\* last: no transport after a failed request validation, no response
\* validation after a failed transport, and no table unless every response
\* record validated.
C28_StagesInOrder ==
    \A c \in CallIds : C28_Holds(calls[c])

\* a call that went through the first two stages and failed at the third
C28_Witness ==
    \E c \in CallIds :
        /\ calls[c].pc = "raised"
        /\ calls[c].handler = "_get_drives"
        /\ \E i \in Positions(calls[c], "request_validation") :
              \E j \in Positions(calls[c], "get") :
                \E k \in Positions(calls[c], "response_validation") :
                    i < j /\ j < k /\ ~calls[c].log[k].ok

C29_MissingFilter ==
    "At least one of week, team, or conference is required when game_id is not specified"

\* the messages of the errors the call ended in
C29_Messages(call) ==
    IF call.pc = "raised" /\ call.outcome.type = "ValidationError"
    THEN {call.outcome.errs[i].msg : i \in DOMAIN call.outcome.errs}
    ELSE {}

C29_Holds(call) ==
    /\ (~GameIdGiven(call.args) /\ ~Given(call.args, "year")) =>
          /\ call.pc = "raised"
          /\ call.outcome.type = "ValidationError"
          /\ Len(call.outcome.errs) = 1
          /\ call.outcome.errs[1].msg =
                "year is required when game_id is not specified"
    /\ (C29_MissingFilter \in C29_Messages(call)) <=>
          /\ ~GameIdGiven(call.args)
          /\ Given(call.args, "year")
          /\ ~FilterGiven(call.args)

C29_WitnessFilter ==
    \E c \in CallIds :
        /\ calls[c].handler = "_get_team_game_stats"
        /\ calls[c].args = DictV([year |-> IntV(2023)])
        /\ C29_Messages(calls[c]) = {C29_MissingFilter}

\* the external names the request shape declares
C30_Vocabulary(fs) == {fs[i].alias : i \in DOMAIN fs}

\* the keys of the mapping that name a field, by external or python name
C30_Known(fs, d) ==
    DOMAIN d \cap ({fs[i].alias : i \in DOMAIN fs}
                      \cup {fs[i].name : i \in DOMAIN fs})

\* the mapping without the keys the request shape does not know
C30_Stripped(fs, d) == DictV([k \in C30_Known(fs, d) |-> d[k]])

C30_SameVerdict(model, r, s) ==
    /\ r.ok = s.ok
    /\ r.ok => model_dump(r.v, TRUE, TRUE) = model_dump(s.v, TRUE, TRUE)

C30_Holds(call, model) ==
    /\ \A i \in Positions(call, "transport") :
          /\ call.log[i].params.t = "dict"
          /\ DOMAIN call.log[i].params.d
                \subseteq C30_Vocabulary(RequestFields(model))
          /\ call.log[i].params = call.sent
    /\ C30_SameVerdict(model, model_validate(model, call.args),
                       model_validate(model,
                           C30_Stripped(RequestFields(model), call.args.d)))
    /\ Positions(call, "transport") # {} <=> ParamsValid(call)
    /\ call.log[1].params = call.params

\* C30: for every route handler and every parameter mapping of the caller,
\* the keys handed to the transport are among the external names the
\* endpoint's request shape declares: a key outside that vocabulary is
\* dropped without a word, neither failing validation nor reaching the
\* wire, and the caller's own mapping is as it was.
C30_OnlyDeclaredKeysSent ==
    \A c \in CallIds :
        (HandlerRan(calls[c]) /\ Validates(calls[c])
            /\ calls[c].args.t = "dict") =>
            C30_Holds(calls[c], RequestModelOf(calls[c]))

\* /calendar called with id and week, which CalendarRequest does not declare
C30_Witness ==
    \E c \in CallIds :
        /\ calls[c].handler = "_get_calendar"
        /\ calls[c].params =
              DictV([year |-> IntV(2023), id |-> IntV(500), week |-> IntV(21)])
        /\ calls[c].sent = DictV([year |-> IntV(2023)])
        /\ calls[c].pc = "returned"

====
